---------------------------- MODULE Spec2Model ----------------------------
(***************************************************************************)
(* Model of the dataset maintenance utilities under tools/:                *)
(*   remove-duplicate-stations.py   (Duplicate Station Remover)            *)
(*   fill-state-from-geo.py         (Geo-based State Filler)               *)
(*   fill-state-from-homepage.py    (Homepage-based State Filler)          *)
(*   fix-state-city-only.py         (City/Region Normalizer, static map)   *)
(*   fix-state-city-region.py       (City/Region Normalizer, geocoding)    *)
(*   ffprobe-metadata.py            (Stream Prober)                        *)
(*                                                                         *)
(* Every utility is a sequential batch job; a behaviour of one of the      *)
(* specifications below is one run (or several successive runs) of one     *)
(* utility.  The variable tool says which, pc is the position in main().   *)
(*                                                                         *)
(* Strings on which the code works character by character (strip, lower,   *)
(* regular expressions, ordering) are sequences of code points; Python's   *)
(* None is the value None below, which is no string.  Identifiers that the *)
(* code only compares (stationuuid) are TLA+ strings.                      *)
(***************************************************************************)
EXTENDS Integers, Sequences, FiniteSets, TLC

VARIABLES
    tool,           \* the utility this behaviour runs
    pc,             \* position in main()
    data,           \* the dataset in memory (list of station records)
    dataFile,       \* src/data/stations-gr.json on disk
    kept_ids,       \* remover: stationuuids of the keepers
    removed,        \* remover: removed records, as indices into data
    final_data,     \* remover: the filtered dataset
    icons,          \* remover: file names present in public/station-icons
    pending,        \* remover: sorted(removed_icons) still to visit
    deleted_files,  \* remover: names unlinked so far, in order
    args,           \* fillers, normalizers: the command-line flags
    skipped,        \* fillers, normalizers: the skip set in memory
    progressFile,   \* fillers, normalizers: the progress file on disk
    processed,      \* fillers, normalizers: stations updated in this run
    target,         \* fillers: index of the selected station, 0 for none
    exit_code,      \* exit status of the last run that ended, -1 before
    run,            \* number of the current run of the utility
    obs,            \* observations of the current run (history, not code)
    mapFile,        \* city-only normalizer: tools/city-region-map.json
    unknown_cities, \* city-only normalizer: cities the map does not have
    unknownFile,    \* city-only normalizer: tools/state-city-only-unknown.json
    urls,           \* prober: the URLs to probe
    results,        \* prober: the records made so far
    output          \* prober: what was written to --output or standard output

vars == <<tool, pc, data, dataFile, kept_ids, removed, final_data, icons,
          pending, deleted_files, args, skipped, progressFile, processed,
          target, exit_code, run, obs, mapFile, unknown_cities, unknownFile,
          urls, results, output>>

removerVars == <<kept_ids, removed, final_data, icons, pending, deleted_files>>

\* What the remover never touches, and its value there.
normVars == <<mapFile, unknown_cities, unknownFile>>

probeVars == <<urls, results, output>>

batchVars == <<args, skipped, progressFile, processed, target, exit_code, run, obs,
               normVars, probeVars>>

\* What only the prober uses, and its value elsewhere.
NoProbe == urls = <<>> /\ results = <<>> /\ output = <<>>

\* No map file, no side file.
NoMap == mapFile = [kind |-> "missing", items |-> <<>>]
NoUnknown == unknown_cities = {} /\ unknownFile = [kind |-> "missing", ids |-> {}]

NoBatch ==
    /\ args = <<>> /\ skipped = {} /\ progressFile = <<>> /\ processed = 0
    /\ target = 0 /\ exit_code = -1 /\ run = 1 /\ obs = <<>>
    /\ NoMap /\ NoUnknown /\ NoProbe

\* What only the remover uses, and its value elsewhere.
NoRemover ==
    /\ kept_ids = {} /\ removed = <<>> /\ final_data = <<>> /\ icons = {}
    /\ pending = <<>> /\ deleted_files = <<>>

-----------------------------------------------------------------------------
(* Strings                                                                 *)

\* Python's None where a string is expected: no code point is negative.
None == << -1 >>

\* (x or ""): None and "" both give "".
OrEmpty(v) == IF v = None THEN <<>> ELSE v

\* str.isspace of one character: what str.strip(), str.split() and \s
\* take for whitespace (U+0009-000D, U+001C-0020, U+0085, U+00A0, U+1680,
\* U+2000-200A, U+2028, U+2029, U+202F, U+205F, U+3000).
IsSpace(c) ==
    \/ c \in {9, 10, 11, 12, 13, 28, 29, 30, 31, 32, 133, 160, 5760}
    \/ c \in 8192..8202
    \/ c \in {8232, 8233, 8239, 8287, 12288}

RECURSIVE LStrip(_)
LStrip(s) == IF s # <<>> /\ IsSpace(Head(s)) THEN LStrip(Tail(s)) ELSE s

RECURSIVE RStrip(_)
RStrip(s) ==
    IF s # <<>> /\ IsSpace(s[Len(s)]) THEN RStrip(SubSeq(s, 1, Len(s) - 1)) ELSE s

\* str.strip()
Strip(s) == RStrip(LStrip(s))

\* a < b for Python strings: lexicographic by code point.
RECURSIVE StrLess(_, _)
StrLess(a, b) ==
    IF b = <<>> THEN FALSE
    ELSE IF a = <<>> THEN TRUE
    ELSE IF Head(a) # Head(b) THEN Head(a) < Head(b)
    ELSE StrLess(Tail(a), Tail(b))

\* sub in s
Contains(sub, s) ==
    \E i \in 0..(Len(s) - Len(sub)) : SubSeq(s, i + 1, i + Len(sub)) = sub

\* sorted(S) for a set S of strings.
RECURSIVE SortedStrings(_)
SortedStrings(S) ==
    IF S = {} THEN <<>>
    ELSE LET m == CHOOSE x \in S : \A y \in S \ {x} : StrLess(x, y)
         IN  <<m>> \o SortedStrings(S \ {m})

\* The set of elements of a sequence.
Range(s) == {s[i] : i \in 1..Len(s)}

\* The subsequence of s at the positions in I, in order.
RECURSIVE SelectIdx(_, _, _)
SelectIdx(s, I, i) ==
    IF i > Len(s) THEN <<>>
    ELSE (IF i \in I THEN <<s[i]>> ELSE <<>>) \o SelectIdx(s, I, i + 1)

\* Path(p).name: the last component of p, where components are separated by
\* "/" and empty and "." components are dropped; "" when there is none.
RECURSIVE PathName(_)
PathName(p) ==
    IF p = <<>> THEN <<>>
    ELSE IF p[Len(p)] = 47 THEN PathName(SubSeq(p, 1, Len(p) - 1))
    ELSE LET starts == {i \in 1..Len(p) : \A j \in i..Len(p) : p[j] # 47}
             first  == CHOOSE i \in starts : \A j \in starts : i <= j
             last   == SubSeq(p, first, Len(p))
         IN  IF last = <<46>> THEN PathName(SubSeq(p, 1, first - 1)) ELSE last

-----------------------------------------------------------------------------
(* remove-duplicate-stations.py                                            *)

\* "__no_stream__"
NO_STREAM == <<95, 95, 110, 111, 95, 115, 116, 114, 101, 97, 109, 95, 95>>

\* "/station-icons/"
ICONS_MARK == <<47, 115, 116, 97, 116, 105, 111, 110, 45, 105, 99, 111, 110, 115, 47>>

\* [a-z0-9] with re.IGNORECASE on a str pattern: the digits, the letters
\* of both cases, and the characters whose case folding is one of them
\* (U+0130, U+0131 for i, U+017F for s, U+212A for k).
IsAlnum(c) ==
    \/ c \in 48..57 \/ c \in 65..90 \/ c \in 97..122
    \/ c \in {304, 305, 383, 8490}

\* "-" and then 6 to 8 of [a-z0-9] that end at position e of the slug.
SuffixEndsAt(slug, e) ==
    \E k \in 6..8 :
        /\ e >= k + 1
        /\ slug[e - k] = 45
        /\ \A j \in (e - k + 1)..e : IsAlnum(slug[j])

\* slug_suffix_re.search(slug): the suffix at the end of the slug; "$" is
\* also the place before a newline that ends the string.
SlugSuffixMatches(slug) ==
    \/ SuffixEndsAt(slug, Len(slug))
    \/ /\ slug # <<>> /\ slug[Len(slug)] = 10
       /\ SuffixEndsAt(slug, Len(slug) - 1)

\* A slip in score_station: the stable slug counts 1, like the name.
score_station_flat(station) ==
    LET slug == Strip(OrEmpty(station.slug))
        name == Strip(OrEmpty(station.name))
    IN  (IF slug # <<>> /\ ~SlugSuffixMatches(slug) THEN 1 ELSE 0)
        + (IF name # <<>> THEN 1 ELSE 0)

score_station(station) ==
    LET slug == Strip(OrEmpty(station.slug))
        name == Strip(OrEmpty(station.name))
    IN  (IF slug # <<>> /\ ~SlugSuffixMatches(slug) THEN 10 ELSE 0)
        + (IF name # <<>> THEN 1 ELSE 0)

\* The sort key of line 47, and Python's order on such tuples.
SortKey(station) ==
    <<0 - score_station(station), Len(OrEmpty(station.slug)), OrEmpty(station.slug)>>

KeyLess(k1, k2) ==
    \/ k1[1] < k2[1]
    \/ k1[1] = k2[1] /\ k1[2] < k2[2]
    \/ k1[1] = k2[1] /\ k1[2] = k2[2] /\ StrLess(k1[3], k2[3])

\* sorted(stations, key=...) on a list of indices into d: stable.
RECURSIVE InsertSorted(_, _, _)
InsertSorted(d, x, sorted) ==
    IF sorted = <<>> THEN <<x>>
    ELSE IF KeyLess(SortKey(d[x]), SortKey(d[Head(sorted)]))
         THEN <<x>> \o sorted
         ELSE <<Head(sorted)>> \o InsertSorted(d, x, Tail(sorted))

RECURSIVE StableSortFrom(_, _, _)
StableSortFrom(d, idxs, acc) ==
    IF idxs = <<>> THEN acc
    ELSE StableSortFrom(d, Tail(idxs), InsertSorted(d, Head(idxs), acc))

stations_sorted(d, idxs) == StableSortFrom(d, idxs, <<>>)

\* The key of by_url a station is filed under (lines 31-35).
UrlKey(station) ==
    LET url == Strip(OrEmpty(station.stream_url))
    IN  IF url = <<>> THEN NO_STREAM ELSE url

\* by_url[key]: the stations filed under key, as indices in file order.
by_url(d, key) == SelectIdx([i \in 1..Len(d) |-> i], {i \in 1..Len(d) : UrlKey(d[i]) = key}, 1)

\* The keys of by_url in insertion order.
RECURSIVE UrlKeys(_, _, _)
UrlKeys(d, i, seen) ==
    IF i > Len(d) THEN <<>>
    ELSE IF UrlKey(d[i]) \in seen THEN UrlKeys(d, i + 1, seen)
         ELSE <<UrlKey(d[i])>> \o UrlKeys(d, i + 1, seen \cup {UrlKey(d[i])})

\* The keeper of a group (lines 41-50): its only member, or the first of the
\* sorted group.
Keeper(d, key) == stations_sorted(d, by_url(d, key))[1]

\* kept_ids after the loop of lines 40-51.
KeptIds(d) == {d[Keeper(d, key)].stationuuid : key \in Range(UrlKeys(d, 1, {}))}

\* removed after the loop of lines 40-51 (nothing for single-member groups).
RECURSIVE RemovedOf(_, _)
RemovedOf(d, keys) ==
    IF keys = <<>> THEN <<>>
    ELSE LET grp == by_url(d, Head(keys))
         IN  (IF Len(grp) = 1 THEN <<>> ELSE Tail(stations_sorted(d, grp)))
             \o RemovedOf(d, Tail(keys))

\* final_data of line 53, as the indices kept.
FinalIdx(d, kept) == {i \in 1..Len(d) : d[i].stationuuid \in kept}

\* lines 57-61
Referenced(final) ==
    {PathName(OrEmpty(final[i].favicon)) :
        i \in {j \in 1..Len(final) : Contains(ICONS_MARK, OrEmpty(final[j].favicon))}}

\* A slip in lines 63-69: the test "name not in referenced" is left out.
RemovedIconsUnchecked(d, rem, referenced) ==
    {n \in {PathName(OrEmpty(d[rem[i]].favicon)) :
                i \in {j \in 1..Len(rem) : Contains(ICONS_MARK, OrEmpty(d[rem[j]].favicon))}} :
        n # <<>>}

\* lines 63-69
RemovedIcons(d, rem, referenced) ==
    {n \in {PathName(OrEmpty(d[rem[i]].favicon)) :
                i \in {j \in 1..Len(rem) : Contains(ICONS_MARK, OrEmpty(d[rem[j]].favicon))}} :
        n # <<>> /\ n \notin referenced}

\* Lines 27-55: group, pick the keepers, filter, write the dataset.
Deduplicate ==
    /\ tool = "remover" /\ pc = "start"
    /\ LET kept == KeptIds(data)
           fin  == SelectIdx(data, FinalIdx(data, kept), 1)
       IN  /\ kept_ids' = kept
           /\ removed' = RemovedOf(data, UrlKeys(data, 1, {}))
           /\ final_data' = fin
           /\ dataFile' = fin
    /\ pc' = "written"
    /\ UNCHANGED <<tool, data, icons, pending, deleted_files, batchVars>>

\* Lines 57-69: the icon names still referenced, and those to delete.
CollectIcons ==
    /\ tool = "remover" /\ pc = "written"
    /\ pending' = SortedStrings(RemovedIcons(data, removed, Referenced(final_data)))
    /\ pc' = "deleting"
    /\ UNCHANGED <<tool, data, dataFile, kept_ids, removed, final_data, icons,
                   deleted_files, batchVars>>

\* The names under public/station-icons (which exists) that are
\* directories: "..".  For these path.exists() is true and path.unlink()
\* raises IsADirectoryError.
IsDirectory(name) == name = <<46, 46>>

\* Lines 72-76: one iteration of the deletion loop.  The uncaught
\* IsADirectoryError ends the run with a traceback (exit status 1) before
\* the report.
DeleteIcon ==
    /\ tool = "remover" /\ pc = "deleting" /\ pending # <<>>
    /\ \/ /\ Head(pending) \in icons
          /\ icons' = icons \ {Head(pending)}
          /\ deleted_files' = Append(deleted_files, Head(pending))
          /\ pending' = Tail(pending)
          /\ UNCHANGED <<pc, exit_code>>
       \/ /\ Head(pending) \notin icons /\ ~IsDirectory(Head(pending))
          /\ pending' = Tail(pending)
          /\ UNCHANGED <<icons, deleted_files, pc, exit_code>>
       \/ /\ Head(pending) \notin icons /\ IsDirectory(Head(pending))
          /\ pc' = "done" /\ exit_code' = 1
          /\ UNCHANGED <<icons, deleted_files, pending>>
    /\ UNCHANGED <<tool, data, dataFile, kept_ids, removed, final_data,
                   args, skipped, progressFile, processed, target, run, obs,
                   normVars, probeVars>>

\* Lines 78-83: the report; the run ends, exit status 0.
Report ==
    /\ tool = "remover" /\ pc = "deleting" /\ pending = <<>>
    /\ pc' = "done" /\ exit_code' = 0
    /\ UNCHANGED <<tool, data, dataFile, removerVars, args, skipped, progressFile,
                   processed, target, run, obs, normVars, probeVars>>

\* Inputs of the remover.
MaxStations == 3

\* The string "None" stands for a record without stationuuid (get gives None).
Uuids == {"None", "a", "b"}

\* None, "u"
StreamUrls == {None, <<117>>}

\* "x.png", "y.png"
IconX == <<120, 46, 112, 110, 103>>
IconY == <<121, 46, 112, 110, 103>>

\* "/station-icons/x.png", "/station-icons/y.png", "https://cdn/x.png",
\* "/station-icons/.."
Favicons == {ICONS_MARK \o IconX,
             ICONS_MARK \o IconY,
             <<104, 116, 116, 112, 115, 58, 47, 47, 99, 100, 110, 47>> \o IconX,
             ICONS_MARK \o <<46, 46>>}

\* Records that differ in identity, stream and icon; slug "ab", name "n".
RemoverStations ==
    [stationuuid : Uuids, stream_url : StreamUrls, slug : {<<97, 98>>},
     name : {<<110>>}, favicon : Favicons]

InitRemover ==
    /\ tool = "remover" /\ pc = "start"
    /\ \E n \in 0..MaxStations : data \in [1..n -> RemoverStations]
    /\ dataFile = data
    /\ kept_ids = {} /\ removed = <<>> /\ final_data = <<>>
    /\ icons \in {{IconX}, {IconX, IconY}}
    /\ pending = <<>> /\ deleted_files = <<>>
    /\ NoBatch

NextRemover == Deduplicate \/ CollectIcons \/ DeleteIcon \/ Report

SpecRemover == InitRemover /\ [][NextRemover]_vars

\* Inputs for the choice of the keeper: records with distinct stationuuids
\* that differ in stream, slug and name.
PositionUuid == <<"a", "b", "c", "d">>

\* "u", "v"
KeeperUrls == {<<117>>, <<118>>}

\* None, "ab", "ac", "a-bcdefghij" (stable: nine after the dash),
\* "a-BCDEF1" (random suffix)
Slugs == {None, <<97, 98>>, <<97, 99>>,
          <<97, 45, 98, 99, 100, 101, 102, 103, 104, 105, 106>>,
          <<97, 45, 66, 67, 68, 69, 70, 49>>}

\* "", "n"
Names == {<<>>, <<110>>}

KeeperStations ==
    [stream_url : KeeperUrls, slug : Slugs, name : Names, favicon : {None}]

WithUuid(station, uuid) ==
    [stationuuid |-> uuid, stream_url |-> station.stream_url, slug |-> station.slug,
     name |-> station.name, favicon |-> station.favicon]

InitKeeper ==
    /\ tool = "remover" /\ pc = "start"
    /\ \E n \in 0..MaxStations : \E base \in [1..n -> KeeperStations] :
          data = [i \in 1..n |-> WithUuid(base[i], PositionUuid[i])]
    /\ dataFile = data
    /\ kept_ids = {} /\ removed = <<>> /\ final_data = <<>>
    /\ icons = {}
    /\ pending = <<>> /\ deleted_files = <<>>
    /\ NoBatch

NextKeeper == Deduplicate

SpecKeeper == InitKeeper /\ [][NextKeeper]_vars

-----------------------------------------------------------------------------
(* Claims about the Duplicate Station Remover                              *)

\* The stream of a record as the remover compares it.
TrimmedUrl(station) == Strip(OrEmpty(station.stream_url))

\* The records of the input that share the non-empty stream u.
UrlGroup(u) == {i \in 1..Len(data) : TrimmedUrl(data[i]) = u}

NonEmptyUrls == {TrimmedUrl(data[i]) : i \in 1..Len(data)} \ {<<>>}

\* How often the record r occurs in the sequence s.
Occurrences(s, r) == Cardinality({i \in 1..Len(s) : s[i] = r})

\* C1: once the dataset is written, no two of its records have the same
\* non-empty stream_url (after trimming): of every group sharing a stream,
\* exactly one record is in the written dataset.
C1_UniqueStreamUrls ==
    pc # "start" =>
        \A i, j \in 1..Len(dataFile) :
            (i # j /\ TrimmedUrl(dataFile[i]) # <<>>)
                => TrimmedUrl(dataFile[i]) # TrimmedUrl(dataFile[j])

\* C4: every record of the input whose stream_url is empty or missing is
\* still in the written dataset, as often as in the input.
C4_EmptyUrlNeverDeduplicated ==
    pc # "start" =>
        \A i \in 1..Len(data) :
            TrimmedUrl(data[i]) = <<>>
                => Occurrences(dataFile, data[i]) = Occurrences(data, data[i])

\* A favicon references the icon file n: it points into /station-icons/ and
\* its last path component is n.
ReferencesIcon(station, n) ==
    /\ Contains(ICONS_MARK, OrEmpty(station.favicon))
    /\ PathName(OrEmpty(station.favicon)) = n

SurvivorReferences(n) ==
    \E i \in 1..Len(dataFile) : ReferencesIcon(dataFile[i], n)

\* A record of the input that is not in the written dataset references n.
RemovedReferences(n) ==
    \E i \in 1..Len(data) :
        /\ Occurrences(dataFile, data[i]) = 0
        /\ ReferencesIcon(data[i], n)

\* The icon files on disk when the run started: files are only ever unlinked.
IconsAtStart == icons \cup Range(deleted_files)

\* C2: an icon file referenced by a surviving record is never deleted, and
\* when the run is over every icon file that existed and was referenced only
\* by removed records has been deleted, exactly once.
C2_IconsDeletedIffUnreferenced ==
    pc # "start" =>
        /\ \A n \in Range(deleted_files) : ~SurvivorReferences(n)
        /\ \A n \in IconsAtStart : SurvivorReferences(n) => n \in icons
        /\ pc = "done" =>
              \A n \in IconsAtStart :
                  (RemovedReferences(n) /\ ~SurvivorReferences(n))
                      => /\ n \notin icons
                         /\ Occurrences(deleted_files, n) = 1

\* Witness of C2: the run is over, x.png is referenced by a removed record
\* and by a survivor and is still on disk, y.png was referenced only by a
\* removed record and has been deleted.
C2_Witness ==
    /\ pc = "done"
    /\ RemovedReferences(IconX) /\ SurvivorReferences(IconX) /\ IconX \in icons
    /\ RemovedReferences(IconY) /\ deleted_files = <<IconY>>

\* The ranking the claim states, written from its words: stable slug +10,
\* non-empty name +1; then the shorter slug; then the smaller slug.
HasRandomSuffix(slug) ==
    \E k \in {6, 7, 8} :
        /\ Len(slug) > k
        /\ SubSeq(slug, Len(slug) - k, Len(slug) - k) = <<45>>
        /\ \A c \in Range(SubSeq(slug, Len(slug) - k + 1, Len(slug))) :
              c \in (48..57) \cup (65..90) \cup (97..122)

HasStableSlug(station) ==
    Strip(OrEmpty(station.slug)) # <<>> /\ ~HasRandomSuffix(Strip(OrEmpty(station.slug)))

ClaimScore(station) ==
    (IF HasStableSlug(station) THEN 10 ELSE 0)
    + (IF Strip(OrEmpty(station.name)) # <<>> THEN 1 ELSE 0)

RanksBefore(r1, r2) ==
    LET s1 == OrEmpty(r1.slug)
        s2 == OrEmpty(r2.slug)
    IN  \/ ClaimScore(r1) > ClaimScore(r2)
        \/ ClaimScore(r1) = ClaimScore(r2) /\ Len(s1) < Len(s2)
        \/ ClaimScore(r1) = ClaimScore(r2) /\ Len(s1) = Len(s2) /\ StrLess(s1, s2)

\* The members of the group of stream u that the written dataset holds.
KeptOf(u) == {i \in UrlGroup(u) : Occurrences(dataFile, data[i]) > 0}

\* C3: of every group of two or more records sharing a non-empty stream_url
\* exactly one record is kept, no other member of the group ranks before it
\* (higher score, then shorter slug, then smaller slug), and it has no
\* random-suffixed slug when a member of the group has a stable slug.
C3_KeeperIsBestRanked ==
    pc = "written" =>
        \A u \in NonEmptyUrls :
            Cardinality(UrlGroup(u)) >= 2 =>
                \E k \in UrlGroup(u) :
                    /\ KeptOf(u) = {k}
                    /\ data[k].stationuuid \in kept_ids
                    /\ \A j \in UrlGroup(u) : ~RanksBefore(data[j], data[k])
                    /\ (\E j \in UrlGroup(u) : HasStableSlug(data[j]))
                           => HasStableSlug(data[k])

\* Witness of C3: a group of three in which the keeper is the last record of
\* the file and has a stable slug; the first record is named and has a
\* random-suffixed slug, the second has a stable slug of the same length.
C3_Witness ==
    /\ pc = "written"
    /\ Len(data) = 3
    /\ Cardinality(UrlGroup(<<117>>)) = 3
    /\ KeptOf(<<117>>) = {3}
    /\ ~HasStableSlug(data[1]) /\ ClaimScore(data[1]) = 1
    /\ ClaimScore(data[2]) = 10 /\ ClaimScore(data[3]) = 10
    /\ Len(OrEmpty(data[2].slug)) = Len(OrEmpty(data[3].slug))

-----------------------------------------------------------------------------
(* The progress file and the loop state that the fillers and normalizers   *)
(* share (the same lines in each of the four scripts)                      *)

\* A JSON number in a place where the code expects a stationuuid.
JsonNumber == "<number>"

\* What the progress file can hold.  kind is
\*   "missing"  no such file
\*   "invalid"  not JSON
\*   "scalar"   a JSON number, true, false or null
\*   "object"   a JSON object whose keys are ids
\*   "array"    a JSON array of the strings ids
\*   "mixed"    a JSON array of the strings ids and a number
ProgressFiles(uuids) ==
    [kind : {"missing", "invalid", "scalar"}, ids : {{}}]
    \cup [kind : {"object", "array", "mixed"}, ids : SUBSET uuids]

\* skipped = set(json.loads(...)) unless the file is missing or that raises
\* (geo 92-97, homepage 103-108, city-only 77-82, city-region 172-177).
\* json.loads raises on "invalid", set() raises TypeError on a scalar; a
\* dict gives its keys.
LoadSkipped(file) ==
    CASE file.kind \in {"missing", "invalid", "scalar"} -> {}
      [] file.kind \in {"object", "array"} -> file.ids
      [] file.kind = "mixed" -> file.ids \cup {JsonNumber}

\* sorted(skipped) raises TypeError when it has to compare a number with a
\* string.
SortRaises(skip) == JsonNumber \in skip /\ skip # {JsonNumber}

\* The file after write_text(json.dumps(sorted(skipped), ...)).
ProgressWritten(skip) ==
    IF JsonNumber \in skip
    THEN [kind |-> "mixed", ids |-> skip \ {JsonNumber}]
    ELSE [kind |-> "array", ids |-> skip]

\* max_items = args.max if args.max and args.max > 0 else float("inf");
\* the test processed < max_items.
BelowMax(n) == IF args.max > 0 THEN n < args.max ELSE TRUE

\* station.get("state") not in (None, "")
HasState(station) == station.state # None /\ station.state # <<>>

\* No answer of the external service so far.
NoAnswer == [no_answer |-> TRUE]

\* The observations a run starts with.  requests counts the requests sent
\* to the external service, answer[i] is the last answer received for the
\* i-th station.  slept: no request to the geocoding service was sent since
\* the run started or since the last time.sleep returned.  settled: when
\* this run started the
\* previous run had ended and every station of the dataset on disk had a
\* state or was in the skip set of the progress file.
ObsAtStart ==
    [requests |-> 0,
     slept |-> TRUE,
     answer |-> [i \in 1..Len(dataFile) |-> NoAnswer],
     settled |-> /\ pc = "done"
                 /\ \A i \in 1..Len(dataFile) :
                       \/ HasState(dataFile[i])
                       \/ dataFile[i].stationuuid \in LoadSkipped(progressFile),
     dataAtStart |-> dataFile,
     progressAtStart |-> progressFile]

\* Number of runs and of external requests per run that are explored.
MaxRuns == 2
MaxRequests == 3

\* The dataset file after an interrupt inside DATA_PATH.write_text: opened
\* for writing, which empties it, and not or not wholly written.  It holds
\* no JSON.
DamagedFile == <<[damaged |-> TRUE]>>

\* What the dataset file can hold when an interrupt arrives after the record
\* was assigned and before processed is incremented: before the write, in
\* it, after it.
InterruptedWrite(before, after) == {before, DamagedFile, after}

\* The observations of a run that ends at line 88: json.loads raises on a
\* damaged dataset file.
ObsNotLoaded ==
    [requests |-> 0,
     slept |-> TRUE,
     answer |-> <<>>,
     settled |-> FALSE,
     dataAtStart |-> dataFile,
     progressAtStart |-> progressFile]

\* Lines 88-97 of the geo filler (99-108 of the homepage filler): the
\* dataset and the skip set are read.  On a damaged dataset file the
\* uncaught JSONDecodeError of line 88 (99) ends the run with a traceback
\* (exit status 1).
LoadRun ==
    /\ IF dataFile = DamagedFile
       THEN /\ data' = <<>> /\ skipped' = {}
            /\ obs' = ObsNotLoaded
            /\ pc' = "done"
            /\ exit_code' = 1
       ELSE /\ data' = dataFile
            /\ skipped' = LoadSkipped(progressFile)
            /\ obs' = ObsAtStart
            /\ pc' = "loop"
            /\ exit_code' = -1
    /\ processed' = 0
    /\ target' = 0
    /\ UNCHANGED <<tool, dataFile, removerVars, probeVars, normVars, args, progressFile>>

\* KeyboardInterrupt while the files are read, before the try block (geo
\* lines 82-97, homepage 93-108, city-only 66-82, city-region 161-177):
\* nothing catches it, the process ends with status 130 and writes nothing.
\* The dataset, or the dataset and the skip set, may have been read.
LoadInterrupted ==
    /\ \/ data' = <<>> /\ skipped' = {}
       \/ /\ dataFile # DamagedFile
          /\ data' = dataFile
          /\ skipped' \in {{}, LoadSkipped(progressFile)}
    /\ obs' = IF data' = <<>> THEN ObsNotLoaded ELSE ObsAtStart
    /\ processed' = 0
    /\ target' = 0
    /\ pc' = "done"
    /\ exit_code' = 130
    /\ UNCHANGED <<tool, dataFile, removerVars, probeVars, normVars, args, progressFile>>

\* The run starts.
StartRun ==
    /\ tool \in {"geo", "homepage"} /\ pc = "start"
    /\ LoadRun
    /\ run' = run

\* The utility is run again, with the same flags, on the files as they are.
Rerun ==
    /\ tool \in {"geo", "homepage"} /\ pc = "done"
    /\ run < MaxRuns
    /\ LoadRun \/ LoadInterrupted
    /\ run' = run + 1

\* skipped.add(target.stationuuid) and the write of the progress file that
\* follows it; the uncaught TypeError of sorted() ends the run with a
\* traceback (exit status 1).
SkipTarget ==
    LET skip == skipped \cup {data[target].stationuuid}
    IN  /\ skipped' = skip
        /\ IF SortRaises(skip)
           THEN /\ pc' = "done" /\ exit_code' = 1
                /\ UNCHANGED progressFile
           ELSE /\ pc' = "loop"
                /\ progressFile' = ProgressWritten(skip)
                /\ UNCHANGED exit_code

\* except KeyboardInterrupt: the skip set, skip as the interrupt found it,
\* is written, exit status 130.  The interrupt can arrive anywhere in the
\* loop.
InterruptedWith(skip) ==
    /\ pc \in {"loop", "target", "sleep"}
    /\ IF SortRaises(skip)
       THEN exit_code' = 1 /\ UNCHANGED progressFile
       ELSE exit_code' = 130 /\ progressFile' = ProgressWritten(skip)
    /\ pc' = "done"

\* The interrupt arrives between two steps of the loop.
Interrupted == InterruptedWith(skipped)

-----------------------------------------------------------------------------
(* fill-state-from-geo.py                                                  *)

ADDRESS_PRIORITY ==
    <<"city", "town", "village", "municipality", "county", "city_district",
      "suburb", "state_district", "state", "region">>

\* A JSON number as the value of an address field: no string.
Number == << -2 >>

\* isinstance(value, str)
IsStr(v) == v # None /\ v # Number

\* JSON values that are no object, where an object is expected: a list that
\* is not empty, and null.
JsonList == [json |-> "list"]
JsonNull == [json |-> "null"]

\* An exception raised where an object was to be returned, and where a
\* string or None was.
Raises(name) == [raises |-> name]
Raised == << -3 >>

\* isinstance(value, dict)
IsDict(v) == "json" \notin DOMAIN v /\ "raises" \notin DOMAIN v

\* address.get(key)
Get(address, key) == IF key \in DOMAIN address THEN address[key] ELSE None

\* pick_state_from_address, from the i-th key on.
RECURSIVE PickFrom(_, _)
PickFrom(address, i) ==
    IF i > Len(ADDRESS_PRIORITY) THEN None
    ELSE LET value == Get(address, ADDRESS_PRIORITY[i])
         IN  IF IsStr(value) /\ Strip(value) # <<>> THEN Strip(value)
             ELSE PickFrom(address, i + 1)

\* pick_state_from_address without the strip() of the value returned.
pick_state_untrimmed(address) ==
    LET hits == {i \in 1..Len(ADDRESS_PRIORITY) :
                    /\ IsStr(Get(address, ADDRESS_PRIORITY[i]))
                    /\ Strip(Get(address, ADDRESS_PRIORITY[i])) # <<>>}
    IN  IF hits = {} THEN None
        ELSE Get(address, ADDRESS_PRIORITY[CHOOSE i \in hits : \A j \in hits : i <= j])

\* address.get raises AttributeError when the address is no object.
pick_state_from_address(address) ==
    IF IsDict(address) THEN PickFrom(address, 1) ELSE Raised

\* lat in (None, "") or lon in (None, "")
CoordsMissing(station) ==
    station.geo_lat \in {"None", ""} \/ station.geo_long \in {"None", ""}

\* float(lat), float(lon) raise ValueError
FloatRaises(station) == station.geo_lat = "abc" \/ station.geo_long = "abc"

\* A candidate test that does not read the skip set.
IsCandidateUnskipped(station) == args.overwrite \/ ~HasState(station)

\* Lines 101-109: the first station that is a candidate, 0 when none is.
IsCandidate(station) ==
    /\ args.overwrite \/ ~HasState(station)
    /\ station.stationuuid \notin skipped

FirstCandidate ==
    IF \E i \in 1..Len(data) : IsCandidate(data[i])
    THEN CHOOSE i \in 1..Len(data) :
            IsCandidate(data[i]) /\ \A j \in 1..(i - 1) : ~IsCandidate(data[j])
    ELSE 0

\* Lines 100-113: the loop test and the selection of the target.
GeoSelect ==
    /\ tool = "geo" /\ pc = "loop"
    /\ BelowMax(processed)
    /\ target' = FirstCandidate
    /\ IF FirstCandidate = 0
       THEN pc' = "done" /\ exit_code' = 0
       ELSE pc' = "target" /\ UNCHANGED exit_code
    /\ UNCHANGED <<tool, data, dataFile, removerVars, probeVars, normVars, args, skipped, progressFile,
                   processed, run, obs>>

\* Lines 100, 166: the maximum is reached.
GeoMaxReached ==
    /\ tool = "geo" /\ pc = "loop"
    /\ ~BelowMax(processed)
    /\ pc' = "done" /\ exit_code' = 0
    /\ UNCHANGED <<tool, data, dataFile, removerVars, probeVars, normVars, args, skipped, progressFile,
                   processed, target, run, obs>>

\* Lines 115-124: the target has no coordinates.
GeoMissingCoords ==
    /\ tool = "geo" /\ pc = "target"
    /\ CoordsMissing(data[target])
    /\ SkipTarget
    /\ UNCHANGED <<tool, data, dataFile, removerVars, probeVars, normVars, args, processed, target, run, obs>>

\* Lines 129-138: the request raises (float(), the network, the content
\* type, the JSON of the answer).
GeoRequestFails ==
    /\ tool = "geo" /\ pc = "target"
    /\ ~CoordsMissing(data[target])
    /\ obs.requests < MaxRequests
    /\ obs' = IF FloatRaises(data[target]) THEN obs
              ELSE [obs EXCEPT !.requests = @ + 1, !.slept = FALSE]
    /\ SkipTarget
    /\ UNCHANGED <<tool, data, dataFile, removerVars, probeVars, normVars, args, processed, target, run>>

\* The JSON the geocoding service answers with: an object with an address,
\* with an error message only, with the address null, with a list as
\* address; a list.
\* "Ath", " ", "\u00a0Vol " (a no-break space first), "", "Cre", "Xyz", "GR"
Payloads ==
    { [address |-> [city |-> <<65, 116, 104>>, state |-> <<88, 121, 122>>]],
      [address |-> [city |-> <<32>>, town |-> <<160, 86, 111, 108, 32>>]],
      [address |-> [city |-> Number, county |-> <<>>, state |-> <<67, 114, 101>>,
                    region |-> <<88, 121, 122>>]],
      [address |-> [country |-> <<71, 82>>]],
      [error |-> "Unable to geocode"],
      [address |-> JsonNull],
      [address |-> JsonList],
      JsonList }

\* payload.get("address") or {}; payload.get raises AttributeError when the
\* answer is no object.
AddressOf(payload) ==
    IF ~IsDict(payload) THEN Raises("AttributeError")
    ELSE IF "address" \in DOMAIN payload /\ payload.address # JsonNull
         THEN payload.address
         ELSE [k \in {} |-> None]

\* Lines 140-149: the answer has no usable address field.
GeoNoField ==
    /\ tool = "geo" /\ pc = "target"
    /\ ~CoordsMissing(data[target]) /\ ~FloatRaises(data[target])
    /\ obs.requests < MaxRequests
    /\ \E payload \in Payloads :
          /\ pick_state_from_address(AddressOf(payload)) = None
          /\ obs' = [obs EXCEPT !.requests = @ + 1, !.slept = FALSE,
                                 !.answer[target] = payload]
    /\ SkipTarget
    /\ UNCHANGED <<tool, data, dataFile, removerVars, probeVars, normVars, args, processed, target, run>>

\* Lines 140-141: the answer is no object, or its address is neither an
\* object nor empty: payload.get, or address.get, raises AttributeError.  It
\* is raised outside the try of lines 129-138 and the handler of line 158
\* takes KeyboardInterrupt only: the run ends with a traceback and status 1,
\* the station is not added to the skip set and no file is written.
GeoAnswerRaises ==
    /\ tool = "geo" /\ pc = "target"
    /\ ~CoordsMissing(data[target]) /\ ~FloatRaises(data[target])
    /\ obs.requests < MaxRequests
    /\ \E payload \in Payloads :
          /\ pick_state_from_address(AddressOf(payload)) = Raised
          /\ obs' = [obs EXCEPT !.requests = @ + 1, !.slept = FALSE,
                                 !.answer[target] = payload]
    /\ pc' = "done" /\ exit_code' = 1
    /\ UNCHANGED <<tool, data, dataFile, removerVars, probeVars, normVars, args, skipped,
                   progressFile, processed, target, run>>

\* Lines 140-157: the state is set, the dataset written; then the sleep.
GeoUpdate ==
    /\ tool = "geo" /\ pc = "target"
    /\ ~CoordsMissing(data[target]) /\ ~FloatRaises(data[target])
    /\ obs.requests < MaxRequests
    /\ \E payload \in Payloads :
          /\ pick_state_from_address(AddressOf(payload)) \notin {None, Raised}
          /\ obs' = [obs EXCEPT !.requests = @ + 1, !.slept = FALSE,
                                 !.answer[target] = payload]
          /\ data' = [data EXCEPT ![target].state =
                                     pick_state_from_address(AddressOf(payload))]
    /\ dataFile' = data'
    /\ processed' = processed + 1
    /\ pc' = IF args.sleep > 0 /\ BelowMax(processed + 1) THEN "sleep" ELSE "loop"
    /\ UNCHANGED <<tool, removerVars, probeVars, normVars, args, skipped, progressFile, target,
                   exit_code, run>>

\* Line 157: time.sleep(args.sleep) returns.
GeoSleep ==
    /\ tool = "geo" /\ pc = "sleep"
    /\ pc' = "loop"
    /\ obs' = [obs EXCEPT !.slept = TRUE]
    /\ UNCHANGED <<tool, data, dataFile, removerVars, probeVars, normVars, args, skipped,
                   progressFile, processed, target, exit_code, run>>

\* The interrupt arrives while the request is in flight (line 130).
GeoInterruptInRequest ==
    /\ pc = "target"
    /\ ~CoordsMissing(data[target]) /\ ~FloatRaises(data[target])
    /\ obs.requests < MaxRequests
    /\ obs' = [obs EXCEPT !.requests = @ + 1, !.slept = FALSE]
    /\ Interrupted
    /\ UNCHANGED <<data, dataFile, skipped>>

\* The interrupt arrives after the answer: before the assignment of line
\* 151, or after it and before, in or after the write of line 152, with
\* processed not yet incremented.
GeoInterruptInUpdate ==
    /\ pc = "target"
    /\ ~CoordsMissing(data[target]) /\ ~FloatRaises(data[target])
    /\ obs.requests < MaxRequests
    /\ \E payload \in Payloads :
          /\ obs' = [obs EXCEPT !.requests = @ + 1, !.slept = FALSE,
                                 !.answer[target] = payload]
          /\ \/ UNCHANGED <<data, dataFile>>
             \/ /\ pick_state_from_address(AddressOf(payload)) \notin {None, Raised}
                /\ data' = [data EXCEPT ![target].state =
                                           pick_state_from_address(AddressOf(payload))]
                /\ dataFile' \in InterruptedWrite(dataFile, data')
    /\ Interrupted
    /\ UNCHANGED skipped

\* The interrupt arrives after a skipped.add (lines 118, 134, 145) and
\* before the write that follows it is over.
GeoInterruptInSkip ==
    /\ pc = "target"
    /\ \/ /\ CoordsMissing(data[target])
          /\ UNCHANGED obs
       \/ /\ ~CoordsMissing(data[target])
          /\ obs.requests < MaxRequests
          /\ obs' = IF FloatRaises(data[target]) THEN obs
                    ELSE [obs EXCEPT !.requests = @ + 1, !.slept = FALSE]
       \/ /\ ~CoordsMissing(data[target]) /\ ~FloatRaises(data[target])
          /\ obs.requests < MaxRequests
          /\ \E payload \in Payloads :
                /\ pick_state_from_address(AddressOf(payload)) = None
                /\ obs' = [obs EXCEPT !.requests = @ + 1, !.slept = FALSE,
                                       !.answer[target] = payload]
    /\ skipped' = skipped \cup {data[target].stationuuid}
    /\ InterruptedWith(skipped')
    /\ UNCHANGED <<data, dataFile>>

\* The interrupt arrives between two steps of the loop; during the
\* selection (lines 100-109) target is the old one, None (line 101) or the
\* new one.
GeoInterruptBetweenSteps ==
    /\ Interrupted
    /\ target' \in IF pc = "loop" /\ BelowMax(processed)
                   THEN {target, 0, FirstCandidate} ELSE {target}
    /\ UNCHANGED <<data, dataFile, skipped, obs, processed>>

\* The interrupt arrives after the try block was left (lines 113, 166):
\* nothing catches it, the process ends with status 130 and writes nothing.
GeoInterruptAtExit ==
    /\ pc = "loop"
    /\ ~BelowMax(processed) \/ FirstCandidate = 0
    /\ pc' = "done"
    /\ exit_code' = 130
    /\ target' = IF BelowMax(processed) THEN 0 ELSE target
    /\ UNCHANGED <<data, dataFile, skipped, obs, processed, progressFile>>

\* KeyboardInterrupt, wherever it arrives: in the try block (lines 158-164)
\* or outside it.
GeoInterrupt ==
    /\ tool = "geo"
    /\ \/ pc = "start" /\ LoadInterrupted
       \/ GeoInterruptBetweenSteps
       \/ GeoInterruptInRequest /\ UNCHANGED <<processed, target>>
       \/ GeoInterruptInUpdate /\ UNCHANGED <<processed, target>>
       \/ GeoInterruptInSkip /\ UNCHANGED <<processed, target>>
       \/ GeoInterruptAtExit
    /\ UNCHANGED <<tool, removerVars, probeVars, normVars, args, run>>

\* Inputs of the geo filler.
MaxCap == 2

StationIds == <<"id1", "id2", "id3">>

\* None, "", "X"
States == {None, <<>>, <<88>>}

\* (geo_lat, geo_long): present, one missing, one empty, one not a number.
Coords == {<<"37.98", "23.72">>, <<"None", "23.72">>, <<"37.98", "">>,
           <<"abc", "23.72">>}

GeoStation(uuid, state, coords) ==
    [stationuuid |-> uuid, state |-> state, geo_lat |-> coords[1],
     geo_long |-> coords[2]]

GeoArgs == [max : 0..MaxCap, sleep : {0, 1}, overwrite : BOOLEAN]

InitBatch ==
    /\ pc = "start" /\ data = <<>>
    /\ skipped = {} /\ processed = 0 /\ target = 0 /\ exit_code = -1 /\ run = 1
    /\ obs = <<>>
    /\ NoUnknown
    /\ NoProbe
    /\ NoRemover

InitGeo ==
    /\ tool = "geo"
    /\ NoMap
    /\ args \in GeoArgs
    /\ \E n \in 1..2 : \E st \in [1..n -> States], co \in [1..n -> Coords] :
          dataFile = [i \in 1..n |-> GeoStation(StationIds[i], st[i], co[i])]
    /\ progressFile \in [kind : {"missing"}, ids : {{}}]
                        \cup [kind : {"array"}, ids : SUBSET {"id1", "id2"}]
    /\ InitBatch

NextGeo ==
    \/ StartRun \/ GeoSelect \/ GeoMaxReached \/ GeoMissingCoords
    \/ GeoRequestFails \/ GeoNoField \/ GeoAnswerRaises \/ GeoUpdate \/ GeoSleep
    \/ GeoInterrupt

SpecGeo == InitGeo /\ [][NextGeo]_vars

-----------------------------------------------------------------------------
(* fill-state-from-homepage.py                                             *)

\* JSON values of a JSON-LD block, by type: a string, an object, a list, a
\* number, true or false, null.
JStr(cp) == [t |-> "str", s |-> cp]
JObj(fields) == [t |-> "dict", d |-> fields]
JList(items) == [t |-> "list", l |-> items]
JNum(n) == [t |-> "number", n |-> n]
JBool(b) == [t |-> "bool", b |-> b]
JNull == [t |-> "null"]

\* obj.get(key) on the fields of a JSON object.
JGet(fields, key) == IF key \in DOMAIN fields THEN fields[key] ELSE JNull

\* bool(value): what "or" tests.
Truthy(v) ==
    CASE v.t = "str" -> v.s # <<>>
      [] v.t = "dict" -> DOMAIN v.d # {}
      [] v.t = "list" -> v.l # <<>>
      [] v.t = "number" -> v.n # 0
      [] v.t = "bool" -> v.b
      [] OTHER -> FALSE

\* isinstance(value, str) and value.strip()
NonBlankStr(v) == v.t = "str" /\ Strip(v.s) # <<>>

\* iter_jsonld_objects: the objects of a payload, lists and @graph flattened.
RECURSIVE iter_jsonld_objects(_)
RECURSIVE IterAll(_)
IterAll(items) ==
    IF items = <<>> THEN <<>>
    ELSE iter_jsonld_objects(Head(items)) \o IterAll(Tail(items))

iter_jsonld_objects(payload) ==
    CASE payload.t = "list" -> IterAll(payload.l)
      [] payload.t = "dict" ->
            IF "@graph" \in DOMAIN payload.d /\ payload.d["@graph"].t = "list"
            THEN IterAll(payload.d["@graph"].l)
            ELSE <<payload>>
      [] OTHER -> <<>>

\* Lines 67-72: the first non-blank string of the address object.
AddressValue(address) ==
    LET keys == <<"addressLocality", "addressRegion", "addressArea">>
        hits == {i \in 1..3 : NonBlankStr(JGet(address.d, keys[i]))}
    IN  IF hits = {} THEN None
        ELSE Strip(JGet(address.d, keys[CHOOSE i \in hits : \A j \in hits : i <= j]).s)

\* Lines 73-79: areaServed or contentLocation or location.
AreaValue(obj) ==
    LET a1 == JGet(obj.d, "areaServed")
        a2 == JGet(obj.d, "contentLocation")
        area == IF Truthy(a1) THEN a1 ELSE IF Truthy(a2) THEN a2
                ELSE JGet(obj.d, "location")
    IN  IF area.t = "dict" /\ NonBlankStr(JGet(area.d, "name"))
        THEN Strip(JGet(area.d, "name").s)
        ELSE IF NonBlankStr(area) THEN Strip(area.s)
        ELSE None

\* The value one object gives (lines 67-79), None when it gives none.
ObjectValue(obj) ==
    LET address == JGet(obj.d, "address")
    IN  IF address.t = "dict" /\ AddressValue(address) # None
        THEN AddressValue(address)
        ELSE AreaValue(obj)

RECURSIVE pick_state_from_jsonld(_)
pick_state_from_jsonld(objects) ==
    IF objects = <<>> THEN None
    ELSE IF ObjectValue(Head(objects)) # None THEN ObjectValue(Head(objects))
    ELSE pick_state_from_jsonld(Tail(objects))

\* Pages, each as the list extract_jsonld_blocks parses out of its HTML
\* (the script tags that hold JSON; line 143).
\* "Ath", " ", "Vol ", "Cre"; a number and false where a place is expected.
Pages ==
    { <<>>,
      <<JObj([areaServed |-> JNum(5), contentLocation |-> JStr(<<67, 114, 101>>)]),
        JObj([areaServed |-> JBool(FALSE), location |-> JNum(0)])>>,
      <<JObj([name |-> JStr(<<88>>)])>>,
      <<JObj([address |-> JObj([addressLocality |-> JStr(<<32>>),
                                addressRegion |-> JStr(<<65, 116, 104>>)])])>>,
      <<JList(<<JObj([address |-> JStr(<<88>>),
                      areaServed |-> JStr(<<>>),
                      location |-> JObj([name |-> JStr(<<86, 111, 108, 32>>)])])>>)>>,
      <<JStr(<<88>>),
        JObj("@graph" :> JList(<<JObj([name |-> JStr(<<88>>)]),
                                 JObj([contentLocation |-> JStr(<<67, 114, 101>>)])>>))>> }

\* state = pick_state_from_jsonld(iter_jsonld_objects(jsonld)), lines 143-144
PageState(page) == pick_state_from_jsonld(IterAll(page))

\* (target.get("homepage") or "").strip()
HomepageOf(station) == Strip(OrEmpty(station.homepage))

\* Lines 112-116: the first station without state that is not skipped.
IsHomeCandidate(station) ==
    ~HasState(station) /\ station.stationuuid \notin skipped

FirstHomeCandidate ==
    IF \E i \in 1..Len(data) : IsHomeCandidate(data[i])
    THEN CHOOSE i \in 1..Len(data) :
            IsHomeCandidate(data[i]) /\ \A j \in 1..(i - 1) : ~IsHomeCandidate(data[j])
    ELSE 0

\* Lines 111-123: the loop test and the selection of the target.
HomeSelect ==
    /\ tool = "homepage" /\ pc = "loop"
    /\ BelowMax(processed)
    /\ target' = FirstHomeCandidate
    /\ IF FirstHomeCandidate = 0
       THEN pc' = "done" /\ exit_code' = 0
       ELSE pc' = "target" /\ UNCHANGED exit_code
    /\ UNCHANGED <<tool, data, dataFile, removerVars, probeVars, normVars, args, skipped, progressFile,
                   processed, run, obs>>

\* Lines 111, 164: the maximum is reached.
HomeMaxReached ==
    /\ tool = "homepage" /\ pc = "loop"
    /\ ~BelowMax(processed)
    /\ pc' = "done" /\ exit_code' = 0
    /\ UNCHANGED <<tool, data, dataFile, removerVars, probeVars, normVars, args, skipped, progressFile,
                   processed, target, run, obs>>

\* Lines 125-130: the target has no homepage.
HomeMissingHomepage ==
    /\ tool = "homepage" /\ pc = "target"
    /\ HomepageOf(data[target]) = <<>>
    /\ SkipTarget
    /\ UNCHANGED <<tool, data, dataFile, removerVars, probeVars, normVars, args, processed, target, run, obs>>

\* unwrap(url) of urllib, which Request() calls: the blanks around the URL
\* go, then a "<" and a ">" around it with the blanks inside them, then a
\* leading "URL:" with the blanks after it.
unwrap(url) ==
    LET bare == Strip(url)
        inner == IF Len(bare) >= 1 /\ bare[1] = 60 /\ bare[Len(bare)] = 62
                 THEN Strip(SubSeq(bare, 2, Len(bare) - 1))
                 ELSE bare
    IN  IF Len(inner) >= 4 /\ SubSeq(inner, 1, 4) = <<85, 82, 76, 58>>
        THEN Strip(SubSeq(inner, 5, Len(inner)))
        ELSE inner

\* _splittag(url)[0]: the URL up to its last "#".
SplitTag(url) ==
    IF \E i \in 1..Len(url) : url[i] = 35
    THEN SubSeq(url, 1, (CHOOSE i \in 1..Len(url) :
                           url[i] = 35 /\ \A j \in (i + 1)..Len(url) : url[j] # 35) - 1)
    ELSE url

\* _splittype finds a scheme: the URL begins with one or more characters
\* other than "/" and ":" followed by ":".
HasScheme(url) ==
    \E i \in 2..Len(url) :
        /\ url[i] = 58
        /\ \A j \in 1..(i - 1) : url[j] \notin {47, 58}

\* Request(url), line 16, raises ValueError("unknown url type") when the
\* URL, unwrapped and without its fragment, has no scheme.  Nothing is sent
\* then.
RequestRaises(url) == ~HasScheme(SplitTag(unwrap(url)))

\* Lines 135-141: fetch_html raises (the URL, the network, the content
\* type).
HomeFetchFails ==
    /\ tool = "homepage" /\ pc = "target"
    /\ HomepageOf(data[target]) # <<>>
    /\ obs.requests < MaxRequests
    /\ obs' = IF RequestRaises(HomepageOf(data[target])) THEN obs
              ELSE [obs EXCEPT !.requests = @ + 1]
    /\ SkipTarget
    /\ UNCHANGED <<tool, data, dataFile, removerVars, probeVars, normVars, args, processed, target, run>>

\* Lines 143-150: the page gives no state.
HomeNoState ==
    /\ tool = "homepage" /\ pc = "target"
    /\ HomepageOf(data[target]) # <<>> /\ ~RequestRaises(HomepageOf(data[target]))
    /\ obs.requests < MaxRequests
    /\ \E page \in Pages :
          /\ PageState(page) = None
          /\ obs' = [obs EXCEPT !.requests = @ + 1, !.answer[target] = [page |-> page]]
    /\ SkipTarget
    /\ UNCHANGED <<tool, data, dataFile, removerVars, probeVars, normVars, args, processed, target, run>>

\* Lines 143-158: the state is set, the dataset written; then the sleep.
HomeUpdate ==
    /\ tool = "homepage" /\ pc = "target"
    /\ HomepageOf(data[target]) # <<>> /\ ~RequestRaises(HomepageOf(data[target]))
    /\ obs.requests < MaxRequests
    /\ \E page \in Pages :
          /\ PageState(page) # None
          /\ obs' = [obs EXCEPT !.requests = @ + 1, !.answer[target] = [page |-> page]]
          /\ data' = [data EXCEPT ![target].state = PageState(page)]
    /\ dataFile' = data'
    /\ processed' = processed + 1
    /\ pc' = IF args.sleep > 0 /\ BelowMax(processed + 1) THEN "sleep" ELSE "loop"
    /\ UNCHANGED <<tool, removerVars, probeVars, normVars, args, skipped, progressFile, target,
                   exit_code, run>>

\* Line 158: time.sleep(args.sleep) returns.
HomeSleep ==
    /\ tool = "homepage" /\ pc = "sleep"
    /\ pc' = "loop"
    /\ UNCHANGED <<tool, data, dataFile, removerVars, probeVars, normVars, args, skipped, progressFile,
                   processed, target, exit_code, run, obs>>

\* The interrupt arrives while the page is fetched (line 137).
HomeInterruptInRequest ==
    /\ pc = "target"
    /\ HomepageOf(data[target]) # <<>> /\ ~RequestRaises(HomepageOf(data[target]))
    /\ obs.requests < MaxRequests
    /\ obs' = [obs EXCEPT !.requests = @ + 1]
    /\ Interrupted
    /\ UNCHANGED <<data, dataFile, skipped>>

\* The interrupt arrives after the page was read: before the assignment of
\* line 152, or after it and before, in or after the write of line 153,
\* with processed not yet incremented.
HomeInterruptInUpdate ==
    /\ pc = "target"
    /\ HomepageOf(data[target]) # <<>> /\ ~RequestRaises(HomepageOf(data[target]))
    /\ obs.requests < MaxRequests
    /\ \E page \in Pages :
          /\ obs' = [obs EXCEPT !.requests = @ + 1, !.answer[target] = [page |-> page]]
          /\ \/ UNCHANGED <<data, dataFile>>
             \/ /\ PageState(page) # None
                /\ data' = [data EXCEPT ![target].state = PageState(page)]
                /\ dataFile' \in InterruptedWrite(dataFile, data')
    /\ Interrupted
    /\ UNCHANGED skipped

\* The interrupt arrives after a skipped.add (lines 128, 139, 148) and
\* before the write that follows it is over.
HomeInterruptInSkip ==
    /\ pc = "target"
    /\ \/ /\ HomepageOf(data[target]) = <<>>
          /\ UNCHANGED obs
       \/ /\ HomepageOf(data[target]) # <<>>
          /\ obs.requests < MaxRequests
          /\ obs' = IF RequestRaises(HomepageOf(data[target])) THEN obs
                    ELSE [obs EXCEPT !.requests = @ + 1]
       \/ /\ HomepageOf(data[target]) # <<>>
          /\ ~RequestRaises(HomepageOf(data[target]))
          /\ obs.requests < MaxRequests
          /\ \E page \in Pages :
                /\ PageState(page) = None
                /\ obs' = [obs EXCEPT !.requests = @ + 1,
                                       !.answer[target] = [page |-> page]]
    /\ skipped' = skipped \cup {data[target].stationuuid}
    /\ InterruptedWith(skipped')
    /\ UNCHANGED <<data, dataFile>>

\* The interrupt arrives between two steps of the loop; during the
\* selection (lines 112-116) target is the old one, None (line 112) or the
\* new one.
HomeInterruptBetweenSteps ==
    /\ Interrupted
    /\ target' \in IF pc = "loop" /\ BelowMax(processed)
                   THEN {target, 0, FirstHomeCandidate} ELSE {target}
    /\ UNCHANGED <<data, dataFile, skipped, obs, processed>>

\* The interrupt arrives after the try block was left (lines 123, 164):
\* nothing catches it, the process ends with status 130 and writes nothing.
HomeInterruptAtExit ==
    /\ pc = "loop"
    /\ ~BelowMax(processed) \/ FirstHomeCandidate = 0
    /\ pc' = "done"
    /\ exit_code' = 130
    /\ target' = IF BelowMax(processed) THEN 0 ELSE target
    /\ UNCHANGED <<data, dataFile, skipped, obs, processed, progressFile>>

\* KeyboardInterrupt, wherever it arrives: in the try block (lines 159-162)
\* or outside it.
HomeInterrupt ==
    /\ tool = "homepage"
    /\ \/ pc = "start" /\ LoadInterrupted
       \/ HomeInterruptBetweenSteps
       \/ HomeInterruptInRequest /\ UNCHANGED <<processed, target>>
       \/ HomeInterruptInUpdate /\ UNCHANGED <<processed, target>>
       \/ HomeInterruptInSkip /\ UNCHANGED <<processed, target>>
       \/ HomeInterruptAtExit
    /\ UNCHANGED <<tool, removerVars, probeVars, normVars, args, run>>

\* "http://h"
HTTP_H == <<104, 116, 116, 112, 58, 47, 47, 104>>

\* "URL:h": Request() drops the "URL:" and finds no scheme.
URL_H == <<85, 82, 76, 58, 104>>

\* None, " ", "URL:h" (no URL), "http://h"
Homepages == {None, <<32>>, URL_H, HTTP_H}

HomeStation(uuid, state, homepage) ==
    [stationuuid |-> uuid, state |-> state, homepage |-> homepage]

\* Either filler, run and run again on the files it leaves.
InitFillers ==
    /\ tool \in {"geo", "homepage"}
    /\ NoMap
    /\ args \in [max : 0..MaxCap, sleep : {0, 1}, overwrite : BOOLEAN]
    /\ tool = "homepage" => ~args.overwrite
    /\ \E n \in 1..2 : \E st \in [1..n -> States] :
          \/ /\ tool = "geo"
             /\ \E co \in [1..n -> {<<"37.98", "23.72">>, <<"None", "23.72">>}] :
                   dataFile = [i \in 1..n |-> GeoStation(StationIds[i], st[i], co[i])]
          \/ /\ tool = "homepage"
             /\ \E hp \in [1..n -> Homepages \ {<<32>>}] :
                   dataFile = [i \in 1..n |-> HomeStation(StationIds[i], st[i], hp[i])]
    /\ progressFile \in [kind : {"missing"}, ids : {{}}]
                        \cup [kind : {"array"}, ids : {{}, {"id2"}}]
    /\ InitBatch

NextFillers ==
    \/ StartRun \/ Rerun
    \/ GeoSelect \/ GeoMaxReached \/ GeoMissingCoords
    \/ GeoRequestFails \/ GeoNoField \/ GeoAnswerRaises \/ GeoUpdate \/ GeoSleep
    \/ GeoInterrupt
    \/ HomeSelect \/ HomeMaxReached \/ HomeMissingHomepage
    \/ HomeFetchFails \/ HomeNoState \/ HomeUpdate \/ HomeSleep \/ HomeInterrupt

SpecFillers == InitFillers /\ [][NextFillers]_vars

-----------------------------------------------------------------------------
(* fix-state-city-only.py                                                  *)

\* REGIONS of fix-state-city-only.py, as code points:
\* "Attica", "Central Macedonia", "Western Macedonia",
\* "Eastern Macedonia and Thrace", "Thessaly", "Epirus", "Western Greece",
\* "Central Greece", "Peloponnese", "North Aegean", "South Aegean",
\* "Ionian Islands", "Crete"
REGIONS_city_only ==
    <<<<65, 116, 116, 105, 99, 97>>,
      <<67, 101, 110, 116, 114, 97, 108, 32, 77, 97, 99, 101, 100, 111, 110, 105, 97>>,
      <<87, 101, 115, 116, 101, 114, 110, 32, 77, 97, 99, 101, 100, 111, 110, 105, 97>>,
      <<69, 97, 115, 116, 101, 114, 110, 32, 77, 97, 99, 101, 100, 111, 110, 105, 97, 32, 97, 110, 100, 32, 84, 104, 114, 97, 99, 101>>,
      <<84, 104, 101, 115, 115, 97, 108, 121>>,
      <<69, 112, 105, 114, 117, 115>>,
      <<87, 101, 115, 116, 101, 114, 110, 32, 71, 114, 101, 101, 99, 101>>,
      <<67, 101, 110, 116, 114, 97, 108, 32, 71, 114, 101, 101, 99, 101>>,
      <<80, 101, 108, 111, 112, 111, 110, 110, 101, 115, 101>>,
      <<78, 111, 114, 116, 104, 32, 65, 101, 103, 101, 97, 110>>,
      <<83, 111, 117, 116, 104, 32, 65, 101, 103, 101, 97, 110>>,
      <<73, 111, 110, 105, 97, 110, 32, 73, 115, 108, 97, 110, 100, 115>>,
      <<67, 114, 101, 116, 101>>>>

\* The characters str.lower() replaces by one other character, as the ranges
\* <<first, last, step, offset>> of the Unicode database of Python 3: the
\* lower-case character of c is c + offset.
LowerRanges ==
    <<<<65, 90, 1, 32>>, <<192, 214, 1, 32>>, <<216, 222, 1, 32>>, <<256, 302, 2, 1>>,
      <<306, 310, 2, 1>>, <<313, 327, 2, 1>>, <<330, 374, 2, 1>>, <<376, 376, 1, -121>>,
      <<377, 381, 2, 1>>, <<385, 385, 1, 210>>, <<386, 388, 2, 1>>, <<390, 390, 1, 206>>,
      <<391, 391, 1, 1>>, <<393, 394, 1, 205>>, <<395, 395, 1, 1>>, <<398, 398, 1, 79>>,
      <<399, 399, 1, 202>>, <<400, 400, 1, 203>>, <<401, 401, 1, 1>>, <<403, 403, 1, 205>>,
      <<404, 404, 1, 207>>, <<406, 406, 1, 211>>, <<407, 407, 1, 209>>, <<408, 408, 1, 1>>,
      <<412, 412, 1, 211>>, <<413, 413, 1, 213>>, <<415, 415, 1, 214>>, <<416, 420, 2, 1>>,
      <<422, 422, 1, 218>>, <<423, 423, 1, 1>>, <<425, 425, 1, 218>>, <<428, 428, 1, 1>>,
      <<430, 430, 1, 218>>, <<431, 431, 1, 1>>, <<433, 434, 1, 217>>, <<435, 437, 2, 1>>,
      <<439, 439, 1, 219>>, <<440, 440, 1, 1>>, <<444, 444, 1, 1>>, <<452, 452, 1, 2>>,
      <<453, 453, 1, 1>>, <<455, 455, 1, 2>>, <<456, 456, 1, 1>>, <<458, 458, 1, 2>>,
      <<459, 475, 2, 1>>, <<478, 494, 2, 1>>, <<497, 497, 1, 2>>, <<498, 500, 2, 1>>,
      <<502, 502, 1, -97>>, <<503, 503, 1, -56>>, <<504, 542, 2, 1>>, <<544, 544, 1, -130>>,
      <<546, 562, 2, 1>>, <<570, 570, 1, 10795>>, <<571, 571, 1, 1>>, <<573, 573, 1, -163>>,
      <<574, 574, 1, 10792>>, <<577, 577, 1, 1>>, <<579, 579, 1, -195>>, <<580, 580, 1, 69>>,
      <<581, 581, 1, 71>>, <<582, 590, 2, 1>>, <<880, 882, 2, 1>>, <<886, 886, 1, 1>>,
      <<895, 895, 1, 116>>, <<902, 902, 1, 38>>, <<904, 906, 1, 37>>, <<908, 908, 1, 64>>,
      <<910, 911, 1, 63>>, <<913, 929, 1, 32>>, <<932, 939, 1, 32>>, <<975, 975, 1, 8>>,
      <<984, 1006, 2, 1>>, <<1012, 1012, 1, -60>>, <<1015, 1015, 1, 1>>, <<1017, 1017, 1, -7>>,
      <<1018, 1018, 1, 1>>, <<1021, 1023, 1, -130>>, <<1024, 1039, 1, 80>>,
      <<1040, 1071, 1, 32>>, <<1120, 1152, 2, 1>>, <<1162, 1214, 2, 1>>, <<1216, 1216, 1, 15>>,
      <<1217, 1229, 2, 1>>, <<1232, 1326, 2, 1>>, <<1329, 1366, 1, 48>>,
      <<4256, 4293, 1, 7264>>, <<4295, 4295, 1, 7264>>, <<4301, 4301, 1, 7264>>,
      <<5024, 5103, 1, 38864>>, <<5104, 5109, 1, 8>>, <<7312, 7354, 1, -3008>>,
      <<7357, 7359, 1, -3008>>, <<7680, 7828, 2, 1>>, <<7838, 7838, 1, -7615>>,
      <<7840, 7934, 2, 1>>, <<7944, 7951, 1, -8>>, <<7960, 7965, 1, -8>>,
      <<7976, 7983, 1, -8>>, <<7992, 7999, 1, -8>>, <<8008, 8013, 1, -8>>,
      <<8025, 8031, 2, -8>>, <<8040, 8047, 1, -8>>, <<8072, 8079, 1, -8>>,
      <<8088, 8095, 1, -8>>, <<8104, 8111, 1, -8>>, <<8120, 8121, 1, -8>>,
      <<8122, 8123, 1, -74>>, <<8124, 8124, 1, -9>>, <<8136, 8139, 1, -86>>,
      <<8140, 8140, 1, -9>>, <<8152, 8153, 1, -8>>, <<8154, 8155, 1, -100>>,
      <<8168, 8169, 1, -8>>, <<8170, 8171, 1, -112>>, <<8172, 8172, 1, -7>>,
      <<8184, 8185, 1, -128>>, <<8186, 8187, 1, -126>>, <<8188, 8188, 1, -9>>,
      <<8486, 8486, 1, -7517>>, <<8490, 8490, 1, -8383>>, <<8491, 8491, 1, -8262>>,
      <<8498, 8498, 1, 28>>, <<8544, 8559, 1, 16>>, <<8579, 8579, 1, 1>>,
      <<9398, 9423, 1, 26>>, <<11264, 11311, 1, 48>>, <<11360, 11360, 1, 1>>,
      <<11362, 11362, 1, -10743>>, <<11363, 11363, 1, -3814>>, <<11364, 11364, 1, -10727>>,
      <<11367, 11371, 2, 1>>, <<11373, 11373, 1, -10780>>, <<11374, 11374, 1, -10749>>,
      <<11375, 11375, 1, -10783>>, <<11376, 11376, 1, -10782>>, <<11378, 11378, 1, 1>>,
      <<11381, 11381, 1, 1>>, <<11390, 11391, 1, -10815>>, <<11392, 11490, 2, 1>>,
      <<11499, 11501, 2, 1>>, <<11506, 11506, 1, 1>>, <<42560, 42604, 2, 1>>,
      <<42624, 42650, 2, 1>>, <<42786, 42798, 2, 1>>, <<42802, 42862, 2, 1>>,
      <<42873, 42875, 2, 1>>, <<42877, 42877, 1, -35332>>, <<42878, 42886, 2, 1>>,
      <<42891, 42891, 1, 1>>, <<42893, 42893, 1, -42280>>, <<42896, 42898, 2, 1>>,
      <<42902, 42920, 2, 1>>, <<42922, 42922, 1, -42308>>, <<42923, 42923, 1, -42319>>,
      <<42924, 42924, 1, -42315>>, <<42925, 42925, 1, -42305>>, <<42926, 42926, 1, -42308>>,
      <<42928, 42928, 1, -42258>>, <<42929, 42929, 1, -42282>>, <<42930, 42930, 1, -42261>>,
      <<42931, 42931, 1, 928>>, <<42932, 42946, 2, 1>>, <<42948, 42948, 1, -48>>,
      <<42949, 42949, 1, -42307>>, <<42950, 42950, 1, -35384>>, <<42951, 42953, 2, 1>>,
      <<42960, 42960, 1, 1>>, <<42966, 42968, 2, 1>>, <<42997, 42997, 1, 1>>,
      <<65313, 65338, 1, 32>>, <<66560, 66599, 1, 40>>, <<66736, 66771, 1, 40>>,
      <<66928, 66938, 1, 39>>, <<66940, 66954, 1, 39>>, <<66956, 66962, 1, 39>>,
      <<66964, 66965, 1, 39>>, <<68736, 68786, 1, 64>>, <<71840, 71871, 1, 32>>,
      <<93760, 93791, 1, 32>>, <<125184, 125217, 1, 34>>>>

\* The case-ignorable characters, as ranges <<first, last, step>>.
CaseIgnorableRanges ==
    <<<<39, 39, 1>>, <<46, 46, 1>>, <<58, 58, 1>>, <<94, 96, 2>>, <<168, 168, 1>>,
      <<173, 175, 2>>, <<180, 180, 1>>, <<183, 184, 1>>, <<688, 879, 1>>, <<884, 885, 1>>,
      <<890, 890, 1>>, <<900, 901, 1>>, <<903, 903, 1>>, <<1155, 1161, 1>>, <<1369, 1369, 1>>,
      <<1375, 1375, 1>>, <<1425, 1469, 1>>, <<1471, 1473, 2>>, <<1474, 1476, 2>>,
      <<1477, 1479, 2>>, <<1524, 1524, 1>>, <<1536, 1541, 1>>, <<1552, 1562, 1>>,
      <<1564, 1564, 1>>, <<1600, 1600, 1>>, <<1611, 1631, 1>>, <<1648, 1648, 1>>,
      <<1750, 1757, 1>>, <<1759, 1768, 1>>, <<1770, 1773, 1>>, <<1807, 1809, 2>>,
      <<1840, 1866, 1>>, <<1958, 1968, 1>>, <<2027, 2037, 1>>, <<2042, 2042, 1>>,
      <<2045, 2045, 1>>, <<2070, 2093, 1>>, <<2137, 2139, 1>>, <<2184, 2184, 1>>,
      <<2192, 2193, 1>>, <<2200, 2207, 1>>, <<2249, 2306, 1>>, <<2362, 2364, 2>>,
      <<2369, 2376, 1>>, <<2381, 2381, 1>>, <<2385, 2391, 1>>, <<2402, 2403, 1>>,
      <<2417, 2417, 1>>, <<2433, 2433, 1>>, <<2492, 2492, 1>>, <<2497, 2500, 1>>,
      <<2509, 2509, 1>>, <<2530, 2531, 1>>, <<2558, 2558, 1>>, <<2561, 2562, 1>>,
      <<2620, 2620, 1>>, <<2625, 2626, 1>>, <<2631, 2632, 1>>, <<2635, 2637, 1>>,
      <<2641, 2641, 1>>, <<2672, 2673, 1>>, <<2677, 2677, 1>>, <<2689, 2690, 1>>,
      <<2748, 2748, 1>>, <<2753, 2757, 1>>, <<2759, 2760, 1>>, <<2765, 2765, 1>>,
      <<2786, 2787, 1>>, <<2810, 2815, 1>>, <<2817, 2817, 1>>, <<2876, 2876, 1>>,
      <<2879, 2881, 2>>, <<2882, 2884, 1>>, <<2893, 2893, 1>>, <<2901, 2902, 1>>,
      <<2914, 2915, 1>>, <<2946, 2946, 1>>, <<3008, 3008, 1>>, <<3021, 3021, 1>>,
      <<3072, 3072, 1>>, <<3076, 3076, 1>>, <<3132, 3134, 2>>, <<3135, 3136, 1>>,
      <<3142, 3144, 1>>, <<3146, 3149, 1>>, <<3157, 3158, 1>>, <<3170, 3171, 1>>,
      <<3201, 3201, 1>>, <<3260, 3260, 1>>, <<3263, 3263, 1>>, <<3270, 3270, 1>>,
      <<3276, 3277, 1>>, <<3298, 3299, 1>>, <<3328, 3329, 1>>, <<3387, 3388, 1>>,
      <<3393, 3396, 1>>, <<3405, 3405, 1>>, <<3426, 3427, 1>>, <<3457, 3457, 1>>,
      <<3530, 3530, 1>>, <<3538, 3540, 1>>, <<3542, 3542, 1>>, <<3633, 3633, 1>>,
      <<3636, 3642, 1>>, <<3654, 3662, 1>>, <<3761, 3761, 1>>, <<3764, 3772, 1>>,
      <<3782, 3784, 2>>, <<3785, 3789, 1>>, <<3864, 3865, 1>>, <<3893, 3897, 2>>,
      <<3953, 3966, 1>>, <<3968, 3972, 1>>, <<3974, 3975, 1>>, <<3981, 3991, 1>>,
      <<3993, 4028, 1>>, <<4038, 4038, 1>>, <<4141, 4144, 1>>, <<4146, 4151, 1>>,
      <<4153, 4154, 1>>, <<4157, 4158, 1>>, <<4184, 4185, 1>>, <<4190, 4192, 1>>,
      <<4209, 4212, 1>>, <<4226, 4226, 1>>, <<4229, 4230, 1>>, <<4237, 4237, 1>>,
      <<4253, 4253, 1>>, <<4348, 4348, 1>>, <<4957, 4959, 1>>, <<5906, 5908, 1>>,
      <<5938, 5939, 1>>, <<5970, 5971, 1>>, <<6002, 6003, 1>>, <<6068, 6069, 1>>,
      <<6071, 6077, 1>>, <<6086, 6086, 1>>, <<6089, 6099, 1>>, <<6103, 6103, 1>>,
      <<6109, 6109, 1>>, <<6155, 6159, 1>>, <<6211, 6211, 1>>, <<6277, 6278, 1>>,
      <<6313, 6313, 1>>, <<6432, 6434, 1>>, <<6439, 6440, 1>>, <<6450, 6450, 1>>,
      <<6457, 6459, 1>>, <<6679, 6680, 1>>, <<6683, 6683, 1>>, <<6742, 6744, 2>>,
      <<6745, 6750, 1>>, <<6752, 6754, 2>>, <<6757, 6764, 1>>, <<6771, 6780, 1>>,
      <<6783, 6783, 1>>, <<6823, 6823, 1>>, <<6832, 6862, 1>>, <<6912, 6915, 1>>,
      <<6964, 6966, 2>>, <<6967, 6970, 1>>, <<6972, 6972, 1>>, <<6978, 6978, 1>>,
      <<7019, 7027, 1>>, <<7040, 7041, 1>>, <<7074, 7077, 1>>, <<7080, 7081, 1>>,
      <<7083, 7085, 1>>, <<7142, 7144, 2>>, <<7145, 7145, 1>>, <<7149, 7151, 2>>,
      <<7152, 7153, 1>>, <<7212, 7219, 1>>, <<7222, 7223, 1>>, <<7288, 7293, 1>>,
      <<7376, 7378, 1>>, <<7380, 7392, 1>>, <<7394, 7400, 1>>, <<7405, 7405, 1>>,
      <<7412, 7412, 1>>, <<7416, 7417, 1>>, <<7468, 7530, 1>>, <<7544, 7544, 1>>,
      <<7579, 7679, 1>>, <<8125, 8127, 2>>, <<8128, 8129, 1>>, <<8141, 8143, 1>>,
      <<8157, 8159, 1>>, <<8173, 8175, 1>>, <<8189, 8190, 1>>, <<8203, 8207, 1>>,
      <<8216, 8217, 1>>, <<8228, 8228, 1>>, <<8231, 8231, 1>>, <<8234, 8238, 1>>,
      <<8288, 8292, 1>>, <<8294, 8303, 1>>, <<8305, 8305, 1>>, <<8319, 8319, 1>>,
      <<8336, 8348, 1>>, <<8400, 8432, 1>>, <<11388, 11389, 1>>, <<11503, 11505, 1>>,
      <<11631, 11631, 1>>, <<11647, 11647, 1>>, <<11744, 11775, 1>>, <<11823, 11823, 1>>,
      <<12293, 12293, 1>>, <<12330, 12333, 1>>, <<12337, 12341, 1>>, <<12347, 12347, 1>>,
      <<12441, 12446, 1>>, <<12540, 12542, 1>>, <<40981, 40981, 1>>, <<42232, 42237, 1>>,
      <<42508, 42508, 1>>, <<42607, 42610, 1>>, <<42612, 42621, 1>>, <<42623, 42623, 1>>,
      <<42652, 42655, 1>>, <<42736, 42737, 1>>, <<42752, 42785, 1>>, <<42864, 42864, 1>>,
      <<42888, 42890, 1>>, <<42994, 42996, 1>>, <<43000, 43001, 1>>, <<43010, 43010, 1>>,
      <<43014, 43014, 1>>, <<43019, 43019, 1>>, <<43045, 43046, 1>>, <<43052, 43052, 1>>,
      <<43204, 43205, 1>>, <<43232, 43249, 1>>, <<43263, 43263, 1>>, <<43302, 43309, 1>>,
      <<43335, 43345, 1>>, <<43392, 43394, 1>>, <<43443, 43443, 1>>, <<43446, 43449, 1>>,
      <<43452, 43453, 1>>, <<43471, 43471, 1>>, <<43493, 43494, 1>>, <<43561, 43566, 1>>,
      <<43569, 43570, 1>>, <<43573, 43574, 1>>, <<43587, 43587, 1>>, <<43596, 43596, 1>>,
      <<43632, 43632, 1>>, <<43644, 43644, 1>>, <<43696, 43698, 2>>, <<43699, 43700, 1>>,
      <<43703, 43704, 1>>, <<43710, 43711, 1>>, <<43713, 43713, 1>>, <<43741, 43741, 1>>,
      <<43756, 43757, 1>>, <<43763, 43764, 1>>, <<43766, 43766, 1>>, <<43867, 43871, 1>>,
      <<43881, 43883, 1>>, <<44005, 44005, 1>>, <<44008, 44008, 1>>, <<44013, 44013, 1>>,
      <<64286, 64286, 1>>, <<64434, 64450, 1>>, <<65024, 65039, 1>>, <<65043, 65043, 1>>,
      <<65056, 65071, 1>>, <<65106, 65106, 1>>, <<65109, 65109, 1>>, <<65279, 65279, 1>>,
      <<65287, 65287, 1>>, <<65294, 65294, 1>>, <<65306, 65306, 1>>, <<65342, 65344, 2>>,
      <<65392, 65392, 1>>, <<65438, 65439, 1>>, <<65507, 65507, 1>>, <<65529, 65531, 1>>,
      <<66045, 66045, 1>>, <<66272, 66272, 1>>, <<66422, 66426, 1>>, <<67456, 67461, 1>>,
      <<67463, 67504, 1>>, <<67506, 67514, 1>>, <<68097, 68099, 1>>, <<68101, 68102, 1>>,
      <<68108, 68111, 1>>, <<68152, 68154, 1>>, <<68159, 68159, 1>>, <<68325, 68326, 1>>,
      <<68900, 68903, 1>>, <<69291, 69292, 1>>, <<69446, 69456, 1>>, <<69506, 69509, 1>>,
      <<69633, 69633, 1>>, <<69688, 69702, 1>>, <<69744, 69744, 1>>, <<69747, 69748, 1>>,
      <<69759, 69761, 1>>, <<69811, 69814, 1>>, <<69817, 69818, 1>>, <<69821, 69821, 1>>,
      <<69826, 69826, 1>>, <<69837, 69837, 1>>, <<69888, 69890, 1>>, <<69927, 69931, 1>>,
      <<69933, 69940, 1>>, <<70003, 70003, 1>>, <<70016, 70017, 1>>, <<70070, 70078, 1>>,
      <<70089, 70092, 1>>, <<70095, 70095, 1>>, <<70191, 70193, 1>>, <<70196, 70198, 2>>,
      <<70199, 70199, 1>>, <<70206, 70206, 1>>, <<70367, 70367, 1>>, <<70371, 70378, 1>>,
      <<70400, 70401, 1>>, <<70459, 70460, 1>>, <<70464, 70464, 1>>, <<70502, 70508, 1>>,
      <<70512, 70516, 1>>, <<70712, 70719, 1>>, <<70722, 70724, 1>>, <<70726, 70726, 1>>,
      <<70750, 70750, 1>>, <<70835, 70840, 1>>, <<70842, 70842, 1>>, <<70847, 70848, 1>>,
      <<70850, 70851, 1>>, <<71090, 71093, 1>>, <<71100, 71101, 1>>, <<71103, 71104, 1>>,
      <<71132, 71133, 1>>, <<71219, 71226, 1>>, <<71229, 71231, 2>>, <<71232, 71232, 1>>,
      <<71339, 71341, 2>>, <<71344, 71349, 1>>, <<71351, 71351, 1>>, <<71453, 71455, 1>>,
      <<71458, 71461, 1>>, <<71463, 71467, 1>>, <<71727, 71735, 1>>, <<71737, 71738, 1>>,
      <<71995, 71996, 1>>, <<71998, 71998, 1>>, <<72003, 72003, 1>>, <<72148, 72151, 1>>,
      <<72154, 72155, 1>>, <<72160, 72160, 1>>, <<72193, 72202, 1>>, <<72243, 72248, 1>>,
      <<72251, 72254, 1>>, <<72263, 72263, 1>>, <<72273, 72278, 1>>, <<72281, 72283, 1>>,
      <<72330, 72342, 1>>, <<72344, 72345, 1>>, <<72752, 72758, 1>>, <<72760, 72765, 1>>,
      <<72767, 72767, 1>>, <<72850, 72871, 1>>, <<72874, 72880, 1>>, <<72882, 72883, 1>>,
      <<72885, 72886, 1>>, <<73009, 73014, 1>>, <<73018, 73020, 2>>, <<73021, 73023, 2>>,
      <<73024, 73029, 1>>, <<73031, 73031, 1>>, <<73104, 73105, 1>>, <<73109, 73111, 2>>,
      <<73459, 73460, 1>>, <<78896, 78904, 1>>, <<92912, 92916, 1>>, <<92976, 92982, 1>>,
      <<92992, 92995, 1>>, <<94031, 94031, 1>>, <<94095, 94111, 1>>, <<94176, 94177, 1>>,
      <<94179, 94180, 1>>, <<110576, 110579, 1>>, <<110581, 110587, 1>>, <<110589, 110590, 1>>,
      <<113821, 113822, 1>>, <<113824, 113827, 1>>, <<118528, 118573, 1>>,
      <<118576, 118598, 1>>, <<119143, 119145, 1>>, <<119155, 119170, 1>>,
      <<119173, 119179, 1>>, <<119210, 119213, 1>>, <<119362, 119364, 1>>,
      <<121344, 121398, 1>>, <<121403, 121452, 1>>, <<121461, 121461, 1>>,
      <<121476, 121476, 1>>, <<121499, 121503, 1>>, <<121505, 121519, 1>>,
      <<122880, 122886, 1>>, <<122888, 122904, 1>>, <<122907, 122913, 1>>,
      <<122915, 122916, 1>>, <<122918, 122922, 1>>, <<123184, 123197, 1>>,
      <<123566, 123566, 1>>, <<123628, 123631, 1>>, <<125136, 125142, 1>>,
      <<125252, 125259, 1>>, <<127995, 127999, 1>>, <<917505, 917505, 1>>,
      <<917536, 917631, 1>>, <<917760, 917999, 1>>>>

\* The cased characters that are not case-ignorable, as ranges
\* <<first, last, step>>.
CasedRanges ==
    <<<<65, 90, 1>>, <<97, 122, 1>>, <<170, 170, 1>>, <<181, 181, 1>>, <<186, 186, 1>>,
      <<192, 214, 1>>, <<216, 246, 1>>, <<248, 442, 1>>, <<444, 447, 1>>, <<452, 659, 1>>,
      <<661, 687, 1>>, <<880, 883, 1>>, <<886, 887, 1>>, <<891, 893, 1>>, <<895, 895, 1>>,
      <<902, 904, 2>>, <<905, 906, 1>>, <<908, 910, 2>>, <<911, 929, 1>>, <<931, 1013, 1>>,
      <<1015, 1153, 1>>, <<1162, 1327, 1>>, <<1329, 1366, 1>>, <<1376, 1416, 1>>,
      <<4256, 4293, 1>>, <<4295, 4295, 1>>, <<4301, 4301, 1>>, <<4304, 4346, 1>>,
      <<4349, 4351, 1>>, <<5024, 5109, 1>>, <<5112, 5117, 1>>, <<7296, 7304, 1>>,
      <<7312, 7354, 1>>, <<7357, 7359, 1>>, <<7424, 7467, 1>>, <<7531, 7543, 1>>,
      <<7545, 7578, 1>>, <<7680, 7957, 1>>, <<7960, 7965, 1>>, <<7968, 8005, 1>>,
      <<8008, 8013, 1>>, <<8016, 8023, 1>>, <<8025, 8031, 2>>, <<8032, 8061, 1>>,
      <<8064, 8116, 1>>, <<8118, 8124, 1>>, <<8126, 8126, 1>>, <<8130, 8132, 1>>,
      <<8134, 8140, 1>>, <<8144, 8147, 1>>, <<8150, 8155, 1>>, <<8160, 8172, 1>>,
      <<8178, 8180, 1>>, <<8182, 8188, 1>>, <<8450, 8450, 1>>, <<8455, 8455, 1>>,
      <<8458, 8467, 1>>, <<8469, 8469, 1>>, <<8473, 8477, 1>>, <<8484, 8490, 2>>,
      <<8491, 8493, 1>>, <<8495, 8500, 1>>, <<8505, 8505, 1>>, <<8508, 8511, 1>>,
      <<8517, 8521, 1>>, <<8526, 8526, 1>>, <<8544, 8575, 1>>, <<8579, 8580, 1>>,
      <<9398, 9449, 1>>, <<11264, 11387, 1>>, <<11390, 11492, 1>>, <<11499, 11502, 1>>,
      <<11506, 11507, 1>>, <<11520, 11557, 1>>, <<11559, 11559, 1>>, <<11565, 11565, 1>>,
      <<42560, 42605, 1>>, <<42624, 42651, 1>>, <<42786, 42863, 1>>, <<42865, 42887, 1>>,
      <<42891, 42894, 1>>, <<42896, 42954, 1>>, <<42960, 42961, 1>>, <<42963, 42965, 2>>,
      <<42966, 42969, 1>>, <<42997, 42998, 1>>, <<43002, 43002, 1>>, <<43824, 43866, 1>>,
      <<43872, 43880, 1>>, <<43888, 43967, 1>>, <<64256, 64262, 1>>, <<64275, 64279, 1>>,
      <<65313, 65338, 1>>, <<65345, 65370, 1>>, <<66560, 66639, 1>>, <<66736, 66771, 1>>,
      <<66776, 66811, 1>>, <<66928, 66938, 1>>, <<66940, 66954, 1>>, <<66956, 66962, 1>>,
      <<66964, 66965, 1>>, <<66967, 66977, 1>>, <<66979, 66993, 1>>, <<66995, 67001, 1>>,
      <<67003, 67004, 1>>, <<68736, 68786, 1>>, <<68800, 68850, 1>>, <<71840, 71903, 1>>,
      <<93760, 93823, 1>>, <<119808, 119892, 1>>, <<119894, 119964, 1>>, <<119966, 119967, 1>>,
      <<119970, 119970, 1>>, <<119973, 119974, 1>>, <<119977, 119980, 1>>,
      <<119982, 119993, 1>>, <<119995, 119997, 2>>, <<119998, 120003, 1>>,
      <<120005, 120069, 1>>, <<120071, 120074, 1>>, <<120077, 120084, 1>>,
      <<120086, 120092, 1>>, <<120094, 120121, 1>>, <<120123, 120126, 1>>,
      <<120128, 120132, 1>>, <<120134, 120134, 1>>, <<120138, 120144, 1>>,
      <<120146, 120485, 1>>, <<120488, 120512, 1>>, <<120514, 120538, 1>>,
      <<120540, 120570, 1>>, <<120572, 120596, 1>>, <<120598, 120628, 1>>,
      <<120630, 120654, 1>>, <<120656, 120686, 1>>, <<120688, 120712, 1>>,
      <<120714, 120744, 1>>, <<120746, 120770, 1>>, <<120772, 120779, 1>>,
      <<122624, 122633, 1>>, <<122635, 122654, 1>>, <<125184, 125251, 1>>,
      <<127280, 127305, 1>>, <<127312, 127337, 1>>, <<127344, 127369, 1>>>>

\* The characters of the ranges <<first, last, step, ...>> of table.
RangeSet(table) ==
    UNION {{table[k][1] + table[k][3] * n :
               n \in 0..((table[k][2] - table[k][1]) \div table[k][3])} :
              k \in 1..Len(table)}

\* The case-ignorable characters.
CaseIgnorable == RangeSet(CaseIgnorableRanges)

\* The cased characters that are not case-ignorable.
Cased == RangeSet(CasedRanges)

\* The function that maps every character of the ranges <<first, last,
\* step, offset>> of table to that character plus the offset of its range.
OffsetMap(table) ==
    [c \in RangeSet(table) |->
        c + table[CHOOSE k \in 1..Len(table) :
                    /\ table[k][1] <= c /\ c <= table[k][2]
                    /\ (c - table[k][1]) % table[k][3] = 0][4]]

\* The lower-case character of every character that str.lower() replaces by
\* one other character.
LowerOf == OffsetMap(LowerRanges)

\* f[c] where f is defined, else c.
ApplyOrSame(f, c) == IF c \in DOMAIN f THEN f[c] ELSE c

\* The capital sigma at position i of s becomes a final sigma: the nearest
\* character before it that is not in ignorable is in cased, and the nearest
\* such character after it, if any, is not.  No character of cased is in
\* ignorable.
SigmaIsFinal(s, i, ignorable, cased) ==
    /\ \E j \in 1..(i - 1) :
          s[j] \in cased /\ \A k \in (j + 1)..(i - 1) : s[k] \in ignorable
    /\ ~\E j \in (i + 1)..Len(s) :
          s[j] \in cased /\ \A k \in (i + 1)..(j - 1) : s[k] \in ignorable

FinalSigma(s, i) == SigmaIsFinal(s, i, CaseIgnorable, Cased)

\* What str.lower() puts for the character at position i of s: U+0130
\* becomes "i" and U+0307, a capital sigma a small or a final sigma, and
\* a character of LowerRanges (below U+00C0 these are A to Z, with offset
\* 32) its lower-case character.
LowerAt(s, i) ==
    LET c == s[i]
    IN  IF c < 192 THEN (IF c \in 65..90 THEN <<c + 32>> ELSE <<c>>)
        ELSE IF c = 304 THEN <<105, 775>>
        ELSE IF c = 931 THEN (IF FinalSigma(s, i) THEN <<962>> ELSE <<963>>)
        ELSE <<ApplyOrSame(LowerOf, c)>>

RECURSIVE LowerUpTo(_, _)
LowerUpTo(s, n) == IF n = 0 THEN <<>> ELSE LowerUpTo(s, n - 1) \o LowerAt(s, n)

\* value.lower(); below U+00C0 only A to Z change.
Lower(s) ==
    IF \A i \in 1..Len(s) : s[i] < 192
    THEN [i \in 1..Len(s) |-> IF s[i] \in 65..90 THEN s[i] + 32 ELSE s[i]]
    ELSE LowerUpTo(s, Len(s))

\* Every character of s that is in from replaced by the character to.
ReplaceChars(s, from, to) == [i \in 1..Len(s) |-> IF s[i] \in from THEN to ELSE s[i]]

\* " ".join(t.split()) for a string t with no blank at either end.
RECURSIVE CollapseFrom(_, _)
CollapseFrom(t, i) ==
    IF i > Len(t) THEN <<>>
    ELSE IF IsSpace(t[i])
         THEN (IF IsSpace(t[i - 1]) THEN <<>> ELSE <<32>>) \o CollapseFrom(t, i + 1)
         ELSE <<t[i]>> \o CollapseFrom(t, i + 1)

\* " ".join(s.split())
SplitJoin(s) == CollapseFrom(Strip(s), 1)

\* normalize_text of fix-state-city-only.py: "/" and "-" become blanks.
normalize_text(value) == SplitJoin(ReplaceChars(Lower(Strip(value)), {47, 45}, 32))

\* json.loads of an object, given its pairs in the order of the text: a key
\* that is written more than once keeps the place of its first pair and
\* takes the value of its last.  The places kept, and the value at a place.
FirstPlaces(items) ==
    {i \in 1..Len(items) : \A j \in 1..(i - 1) : items[j].city # items[i].city}

LoadedRegion(items, i) ==
    items[CHOOSE j \in i..Len(items) :
             /\ items[j].city = items[i].city
             /\ \A k \in (j + 1)..Len(items) : items[k].city # items[i].city].region

\* The map file: kind "missing", "invalid" (no JSON), "array" (JSON, but no
\* object) or "object", whose items are the pairs city, region in the order
\* of the file; a region is a string or a JSON number.  The loop of lines
\* 44-47 goes through the pairs json.loads kept, passes over a region that
\* is no string, and lets a later pair replace an earlier one with the same
\* normalized city.
load_city_region_map(file) ==
    IF file.kind # "object" THEN [k \in {} |-> None]
    ELSE LET items == file.items
             strs == {i \in FirstPlaces(items) : IsStr(LoadedRegion(items, i))}
             keys == {normalize_text(items[i].city) : i \in strs}
             last(k) == CHOOSE i \in strs :
                           /\ normalize_text(items[i].city) = k
                           /\ \A j \in strs : normalize_text(items[j].city) = k => j <= i
         IN  [k \in keys |-> Strip(LoadedRegion(items, last(k)))]

\* Line 74.
city_region_map == load_city_region_map(mapFile)

\* The station the loop is at: target counts the stations it has passed.
Cur == target + 1

\* Line 92.
StateIsRegion_city_only(station) ==
    station.state # None /\ station.state \in Range(REGIONS_city_only)

\* bool(city_value)
HasCity(station) == station.city # None /\ station.city # <<>>

\* The station is stepped over as if it were never looked at.  Reads the
\* skip set even where the map has an entry for the station.
PassedNoMap(station) ==
    \/ StateIsRegion_city_only(station) \/ HasCity(station)
    \/ station.state = None \/ Strip(station.state) = <<>>
    \/ station.stationuuid \in skipped

\* Lines 94-102: the tests that end in continue.
Passed(station) ==
    \/ StateIsRegion_city_only(station) \/ HasCity(station)
    \/ station.state = None \/ Strip(station.state) = <<>>
    \/ /\ station.stationuuid \in skipped
       /\ normalize_text(station.state) \notin DOMAIN city_region_map

\* region = city_region_map.get(city_lookup)
RegionFor(station) ==
    IF normalize_text(station.state) \in DOMAIN city_region_map
    THEN city_region_map[normalize_text(station.state)]
    ELSE None

\* The normalizers start: the dataset and the skip set are read.
NormStart ==
    /\ tool \in {"city-only", "city-region"} /\ pc = "start"
    /\ LoadRun
    /\ run' = run

\* The end of the loop and lines 132-142 (238-242 of the other variant):
\* the skip set is written, then the unknown cities if there are any.
NormFinish ==
    /\ pc = "loop"
    /\ Cur > Len(data) \/ ~BelowMax(processed)
    /\ pc' = "done"
    /\ IF SortRaises(skipped)
       THEN exit_code' = 1 /\ UNCHANGED <<progressFile, unknownFile>>
       ELSE /\ exit_code' = 0
            /\ progressFile' = ProgressWritten(skipped)
            /\ unknownFile' = IF unknown_cities # {}
                              THEN [kind |-> "array", ids |-> unknown_cities]
                              ELSE unknownFile
    /\ UNCHANGED <<tool, data, dataFile, removerVars, probeVars, args, skipped, processed,
                   target, run, obs, mapFile, unknown_cities>>

CityOnlyFinish == tool = "city-only" /\ NormFinish

\* KeyboardInterrupt after the loop of a normalizer, outside the try block
\* (city-only lines 132-142, city-region 238-242): before the write of the
\* progress file, in it, after it; then, when there are unknown cities, in
\* or after the write of their file.  Nothing catches it: the process ends
\* with status 130.  An interrupt inside write_text leaves the file emptied
\* (no JSON); sorted() raises before the file is opened.
NormInterruptAtExit ==
    /\ pc = "loop"
    /\ Cur > Len(data) \/ ~BelowMax(processed)
    /\ pc' = "done"
    /\ exit_code' = 130
    /\ \/ UNCHANGED <<progressFile, unknownFile>>
       \/ /\ ~SortRaises(skipped)
          /\ progressFile' \in {[kind |-> "invalid", ids |-> {}], ProgressWritten(skipped)}
          /\ UNCHANGED unknownFile
       \/ /\ ~SortRaises(skipped) /\ unknown_cities # {}
          /\ progressFile' = ProgressWritten(skipped)
          /\ unknownFile' \in {[kind |-> "invalid", ids |-> {}],
                             [kind |-> "array", ids |-> unknown_cities]}
    /\ UNCHANGED <<data, dataFile, skipped, obs, processed, target, unknown_cities>>

\* Lines 94-102.
CityOnlyContinue ==
    /\ tool = "city-only" /\ pc = "loop"
    /\ Cur <= Len(data) /\ BelowMax(processed)
    /\ Passed(data[Cur])
    /\ target' = Cur
    /\ UNCHANGED <<tool, pc, data, dataFile, removerVars, probeVars, normVars, args, skipped,
                   progressFile, processed, exit_code, run, obs>>

\* Lines 106-111: the map has no region for the city.
CityOnlyUnknown ==
    /\ tool = "city-only" /\ pc = "loop"
    /\ Cur <= Len(data) /\ BelowMax(processed)
    /\ ~Passed(data[Cur])
    /\ RegionFor(data[Cur]) \in {None, <<>>}
    /\ unknown_cities' = unknown_cities \cup {Strip(data[Cur].state)}
    /\ skipped' = skipped \cup {data[Cur].stationuuid}
    /\ target' = Cur
    /\ UNCHANGED <<tool, pc, data, dataFile, removerVars, probeVars, mapFile, unknownFile, args,
                   progressFile, processed, exit_code, run, obs>>

\* Lines 112-115: the region of the map is none of REGIONS.
CityOnlyInvalidRegion ==
    /\ tool = "city-only" /\ pc = "loop"
    /\ Cur <= Len(data) /\ BelowMax(processed)
    /\ ~Passed(data[Cur])
    /\ RegionFor(data[Cur]) \notin {None, <<>>}
    /\ RegionFor(data[Cur]) \notin Range(REGIONS_city_only)
    /\ skipped' = skipped \cup {data[Cur].stationuuid}
    /\ target' = Cur
    /\ UNCHANGED <<tool, pc, data, dataFile, removerVars, probeVars, normVars, args,
                   progressFile, processed, exit_code, run, obs>>

\* Lines 117-123.
CityOnlyUpdate ==
    /\ tool = "city-only" /\ pc = "loop"
    /\ Cur <= Len(data) /\ BelowMax(processed)
    /\ ~Passed(data[Cur])
    /\ RegionFor(data[Cur]) \in Range(REGIONS_city_only)
    /\ data' = [data EXCEPT ![Cur].city = Strip(data[Cur].state),
                            ![Cur].state = RegionFor(data[Cur])]
    /\ dataFile' = data'
    /\ processed' = processed + 1
    /\ skipped' = skipped \ {data[Cur].stationuuid}
    /\ target' = Cur
    /\ UNCHANGED <<tool, pc, removerVars, probeVars, normVars, args, progressFile, exit_code,
                   run, obs>>

\* The interrupt arrives between lines 109 and 110: the city is recorded
\* as unknown, the station not yet skipped.
CityOnlyInterruptInUnknown ==
    /\ pc = "loop"
    /\ Cur <= Len(data) /\ BelowMax(processed)
    /\ ~Passed(data[Cur])
    /\ RegionFor(data[Cur]) \in {None, <<>>}
    /\ unknown_cities' = unknown_cities \cup {Strip(data[Cur].state)}
    /\ Interrupted
    /\ UNCHANGED <<data, dataFile, processed, skipped>>

\* The interrupt arrives in lines 117-123: after the city is assigned,
\* after the state is assigned and before, in or after the write, or after
\* processed is incremented and before the station leaves the skip set.
CityOnlyInterruptInUpdate ==
    /\ pc = "loop"
    /\ Cur <= Len(data) /\ BelowMax(processed)
    /\ ~Passed(data[Cur])
    /\ RegionFor(data[Cur]) \in Range(REGIONS_city_only)
    /\ LET withCity == [data EXCEPT ![Cur].city = Strip(data[Cur].state)]
           withBoth == [withCity EXCEPT ![Cur].state = RegionFor(data[Cur])]
       IN  \/ /\ data' = withCity
              /\ UNCHANGED <<dataFile, processed>>
           \/ /\ data' = withBoth
              /\ dataFile' \in InterruptedWrite(dataFile, withBoth)
              /\ UNCHANGED processed
           \/ /\ data' = withBoth
              /\ dataFile' = withBoth
              /\ processed' = processed + 1
    /\ Interrupted
    /\ UNCHANGED <<skipped, unknown_cities>>

\* KeyboardInterrupt, wherever it arrives: in the try block (lines 124-130)
\* or outside it.
CityOnlyInterrupt ==
    /\ tool = "city-only"
    /\ \/ pc = "start" /\ LoadInterrupted
       \/ /\ \/ Interrupted /\ UNCHANGED <<data, dataFile, processed, skipped, unknown_cities>>
             \/ CityOnlyInterruptInUnknown
             \/ CityOnlyInterruptInUpdate
          /\ UNCHANGED <<unknownFile, target, obs>>
       \/ NormInterruptAtExit
    /\ UNCHANGED <<tool, removerVars, probeVars, mapFile, args, run>>

-----------------------------------------------------------------------------
(* fix-state-city-region.py                                                *)

\* REGIONS of fix-state-city-region.py:
\* "Attica", "Central Macedonia", "West Macedonia",
\* "East Macedonia and Thrace", "Thessaly", "Epirus", "Western Greece",
\* "Central Greece", "Peloponnese", "North Aegean", "South Aegean",
\* "Ionian Islands", "Crete"
REGIONS_city_region ==
    <<<<65, 116, 116, 105, 99, 97>>,
      <<67, 101, 110, 116, 114, 97, 108, 32, 77, 97, 99, 101, 100, 111, 110, 105, 97>>,
      <<87, 101, 115, 116, 32, 77, 97, 99, 101, 100, 111, 110, 105, 97>>,
      <<69, 97, 115, 116, 32, 77, 97, 99, 101, 100, 111, 110, 105, 97, 32, 97, 110, 100, 32, 84, 104, 114, 97, 99, 101>>,
      <<84, 104, 101, 115, 115, 97, 108, 121>>,
      <<69, 112, 105, 114, 117, 115>>,
      <<87, 101, 115, 116, 101, 114, 110, 32, 71, 114, 101, 101, 99, 101>>,
      <<67, 101, 110, 116, 114, 97, 108, 32, 71, 114, 101, 101, 99, 101>>,
      <<80, 101, 108, 111, 112, 111, 110, 110, 101, 115, 101>>,
      <<78, 111, 114, 116, 104, 32, 65, 101, 103, 101, 97, 110>>,
      <<83, 111, 117, 116, 104, 32, 65, 101, 103, 101, 97, 110>>,
      <<73, 111, 110, 105, 97, 110, 32, 73, 115, 108, 97, 110, 100, 115>>,
      <<67, 114, 101, 116, 101>>>>

\* REGION_ALIASES, in the order of the dict: for each region its aliases.
REGION_ALIASES ==
    << \* Attica: attica, attiki
       [region |-> <<65, 116, 116, 105, 99, 97>>,
        aliases |-> <<<<97, 116, 116, 105, 99, 97>>,
                      <<97, 116, 116, 105, 107, 105>>>>],
       \* Central Macedonia: central macedonia
       [region |-> <<67, 101, 110, 116, 114, 97, 108, 32, 77, 97, 99, 101, 100, 111, 110, 105, 97>>,
        aliases |-> <<<<99, 101, 110, 116, 114, 97, 108, 32, 109, 97, 99, 101, 100, 111, 110, 105, 97>>>>],
       \* West Macedonia: west macedonia, western macedonia
       [region |-> <<87, 101, 115, 116, 32, 77, 97, 99, 101, 100, 111, 110, 105, 97>>,
        aliases |-> <<<<119, 101, 115, 116, 32, 109, 97, 99, 101, 100, 111, 110, 105, 97>>,
                      <<119, 101, 115, 116, 101, 114, 110, 32, 109, 97, 99, 101, 100, 111, 110, 105, 97>>>>],
       \* East Macedonia and Thrace: east macedonia and thrace, eastern macedonia and thrace
       [region |-> <<69, 97, 115, 116, 32, 77, 97, 99, 101, 100, 111, 110, 105, 97, 32, 97, 110, 100, 32, 84, 104, 114, 97, 99, 101>>,
        aliases |-> <<<<101, 97, 115, 116, 32, 109, 97, 99, 101, 100, 111, 110, 105, 97, 32, 97, 110, 100, 32, 116, 104, 114, 97, 99, 101>>,
                      <<101, 97, 115, 116, 101, 114, 110, 32, 109, 97, 99, 101, 100, 111, 110, 105, 97, 32, 97, 110, 100, 32, 116, 104, 114, 97, 99, 101>>>>],
       \* Thessaly: thessaly, thessalia
       [region |-> <<84, 104, 101, 115, 115, 97, 108, 121>>,
        aliases |-> <<<<116, 104, 101, 115, 115, 97, 108, 121>>,
                      <<116, 104, 101, 115, 115, 97, 108, 105, 97>>>>],
       \* Epirus: epirus, ipeiros
       [region |-> <<69, 112, 105, 114, 117, 115>>,
        aliases |-> <<<<101, 112, 105, 114, 117, 115>>,
                      <<105, 112, 101, 105, 114, 111, 115>>>>],
       \* Western Greece: western greece, west greece
       [region |-> <<87, 101, 115, 116, 101, 114, 110, 32, 71, 114, 101, 101, 99, 101>>,
        aliases |-> <<<<119, 101, 115, 116, 101, 114, 110, 32, 103, 114, 101, 101, 99, 101>>,
                      <<119, 101, 115, 116, 32, 103, 114, 101, 101, 99, 101>>>>],
       \* Central Greece: central greece, sterea ellada, steria ellada, sterea
       [region |-> <<67, 101, 110, 116, 114, 97, 108, 32, 71, 114, 101, 101, 99, 101>>,
        aliases |-> <<<<99, 101, 110, 116, 114, 97, 108, 32, 103, 114, 101, 101, 99, 101>>,
                      <<115, 116, 101, 114, 101, 97, 32, 101, 108, 108, 97, 100, 97>>,
                      <<115, 116, 101, 114, 105, 97, 32, 101, 108, 108, 97, 100, 97>>,
                      <<115, 116, 101, 114, 101, 97>>>>],
       \* Peloponnese: peloponnese, peloponnisos, peloponnesos
       [region |-> <<80, 101, 108, 111, 112, 111, 110, 110, 101, 115, 101>>,
        aliases |-> <<<<112, 101, 108, 111, 112, 111, 110, 110, 101, 115, 101>>,
                      <<112, 101, 108, 111, 112, 111, 110, 110, 105, 115, 111, 115>>,
                      <<112, 101, 108, 111, 112, 111, 110, 110, 101, 115, 111, 115>>>>],
       \* North Aegean: north aegean
       [region |-> <<78, 111, 114, 116, 104, 32, 65, 101, 103, 101, 97, 110>>,
        aliases |-> <<<<110, 111, 114, 116, 104, 32, 97, 101, 103, 101, 97, 110>>>>],
       \* South Aegean: south aegean
       [region |-> <<83, 111, 117, 116, 104, 32, 65, 101, 103, 101, 97, 110>>,
        aliases |-> <<<<115, 111, 117, 116, 104, 32, 97, 101, 103, 101, 97, 110>>>>],
       \* Ionian Islands: ionian islands, ionian isles
       [region |-> <<73, 111, 110, 105, 97, 110, 32, 73, 115, 108, 97, 110, 100, 115>>,
        aliases |-> <<<<105, 111, 110, 105, 97, 110, 32, 105, 115, 108, 97, 110, 100, 115>>,
                      <<105, 111, 110, 105, 97, 110, 32, 105, 115, 108, 101, 115>>>>],
       \* Crete: crete, kriti
       [region |-> <<67, 114, 101, 116, 101>>,
        aliases |-> <<<<99, 114, 101, 116, 101>>,
                      <<107, 114, 105, 116, 105>>>>] >>

\* "municipality of ", "municipal unit of ", "city of ", "region of ",
\* "prefecture of ", "province of ", "county of ", "district of ",
\* "metropolitan area of "
CITY_PREFIXES ==
    <<<<109, 117, 110, 105, 99, 105, 112, 97, 108, 105, 116, 121, 32, 111, 102, 32>>,
      <<109, 117, 110, 105, 99, 105, 112, 97, 108, 32, 117, 110, 105, 116, 32, 111, 102, 32>>,
      <<99, 105, 116, 121, 32, 111, 102, 32>>,
      <<114, 101, 103, 105, 111, 110, 32, 111, 102, 32>>,
      <<112, 114, 101, 102, 101, 99, 116, 117, 114, 101, 32, 111, 102, 32>>,
      <<112, 114, 111, 118, 105, 110, 99, 101, 32, 111, 102, 32>>,
      <<99, 111, 117, 110, 116, 121, 32, 111, 102, 32>>,
      <<100, 105, 115, 116, 114, 105, 99, 116, 32, 111, 102, 32>>,
      <<109, 101, 116, 114, 111, 112, 111, 108, 105, 116, 97, 110, 32, 97, 114, 101, 97, 32, 111, 102, 32>>>>

\* " municipality", " municipal unit", " city", " region", " prefecture",
\* " province", " county", " district"
CITY_SUFFIXES ==
    <<<<32, 109, 117, 110, 105, 99, 105, 112, 97, 108, 105, 116, 121>>,
      <<32, 109, 117, 110, 105, 99, 105, 112, 97, 108, 32, 117, 110, 105, 116>>,
      <<32, 99, 105, 116, 121>>,
      <<32, 114, 101, 103, 105, 111, 110>>,
      <<32, 112, 114, 101, 102, 101, 99, 116, 117, 114, 101>>,
      <<32, 112, 114, 111, 118, 105, 110, 99, 101>>,
      <<32, 99, 111, 117, 110, 116, 121>>,
      <<32, 100, 105, 115, 116, 114, 105, 99, 116>>>>

ADDRESS_FIELDS == <<"state", "region", "state_district", "county">>

\* re.sub(r"\s*\(.*?\)\s*", " ", s) up to the blanks around what is cut,
\* which the split() that follows every use drops: each "(" with a ")"
\* after it goes, with everything up to the first such ")".
RECURSIVE RemoveParens(_)
RemoveParens(s) ==
    LET opens == {i \in 1..Len(s) : s[i] = 40 /\ \E j \in (i + 1)..Len(s) : s[j] = 41}
    IN  IF opens = {} THEN s
        ELSE LET i == CHOOSE i \in opens : \A k \in opens : i <= k
                 j == CHOOSE j \in (i + 1)..Len(s) :
                         s[j] = 41 /\ \A k \in (i + 1)..(j - 1) : s[k] # 41
             IN  SubSeq(s, 1, i - 1) \o <<32>> \o RemoveParens(SubSeq(s, j + 1, Len(s)))

\* normalize_text of fix-state-city-region.py: blanks, "-", "_" and "/"
\* become one blank, parentheses go.
normalize_text_region(value) ==
    SplitJoin(RemoveParens(ReplaceChars(Lower(Strip(value)), {45, 95, 47}, 32)))

StartsWith(s, prefix) == Len(prefix) <= Len(s) /\ SubSeq(s, 1, Len(prefix)) = prefix

EndsWith(s, suffix) ==
    Len(suffix) <= Len(s) /\ SubSeq(s, Len(s) - Len(suffix) + 1, Len(s)) = suffix

\* Lines 103-104: what stands before the first comma.
BeforeComma(s) ==
    IF 44 \in Range(s)
    THEN Strip(SubSeq(s, 1, (CHOOSE i \in 1..Len(s) :
                                s[i] = 44 /\ \A k \in 1..(i - 1) : s[k] # 44) - 1))
    ELSE s

\* Lines 109-113: the first prefix that matches is cut.
CutPrefix(s) ==
    LET lower == Lower(s)
        hits == {p \in 1..Len(CITY_PREFIXES) : StartsWith(lower, CITY_PREFIXES[p])}
    IN  IF hits = {} THEN s
        ELSE Strip(SubSeq(s, Len(CITY_PREFIXES[CHOOSE p \in hits :
                                    \A q \in hits : p <= q]) + 1, Len(s)))

\* Lines 115-119: the first suffix that matches is cut.
CutSuffix(s) ==
    LET lower == Lower(s)
        hits == {p \in 1..Len(CITY_SUFFIXES) : EndsWith(lower, CITY_SUFFIXES[p])}
    IN  IF hits = {} THEN s
        ELSE Strip(SubSeq(s, 1, Len(s) - Len(CITY_SUFFIXES[CHOOSE p \in hits :
                                                \A q \in hits : p <= q])))

clean_city(value) ==
    CutSuffix(CutPrefix(SplitJoin(RemoveParens(BeforeComma(SplitJoin(value))))))

\* Lines 130-133: the first region one of whose aliases is in the text.
AliasRegion(normalized) ==
    LET hits == {r \in 1..Len(REGION_ALIASES) :
                    \E a \in 1..Len(REGION_ALIASES[r].aliases) :
                        Contains(REGION_ALIASES[r].aliases[a], normalized)}
    IN  IF hits = {} THEN None
        ELSE REGION_ALIASES[CHOOSE r \in hits : \A q \in hits : r <= q].region

\* map_region, from the i-th address field on.
RECURSIVE MapRegionFrom(_, _)
MapRegionFrom(address, i) ==
    IF i > Len(ADDRESS_FIELDS) THEN None
    ELSE LET value == Get(address, ADDRESS_FIELDS[i])
         IN  IF IsStr(value) /\ Strip(value) # <<>>
                /\ AliasRegion(normalize_text_region(value)) # None
             THEN AliasRegion(normalize_text_region(value))
             ELSE MapRegionFrom(address, i + 1)

\* address.get raises AttributeError when the address is no object.
map_region(address) ==
    IF IsDict(address) THEN MapRegionFrom(address, 1) ELSE Raised

\* Line 188.
StateIsRegion_city_region(station) ==
    station.state # None /\ station.state \in Range(REGIONS_city_region)

\* Lines 214-218.
city_candidate(station) ==
    IF station.city # None /\ Strip(station.city) # <<>>
    THEN clean_city(station.city)
    ELSE IF /\ station.state # None /\ Strip(station.state) # <<>>
            /\ ~StateIsRegion_city_region(station)
         THEN clean_city(station.state)
         ELSE None

\* Answers of the geocoding service: the state "Attiki"; a blank region and
\* the county "Western Macedonia (GR)"; the state "Nowhere"; an error; a
\* list as address; a list.
RegionPayloads ==
    { [address |-> [state |-> <<65, 116, 116, 105, 107, 105>>]],
      [address |-> [region |-> <<32>>, county |-> <<87, 101, 115, 116, 101, 114, 110, 32, 77, 97, 99, 101, 100, 111, 110, 105, 97, 32, 40, 71, 82, 41>>]],
      [address |-> [state |-> <<78, 111, 119, 104, 101, 114, 101>>]],
      [error |-> "Unable to geocode"],
      [address |-> JsonList],
      JsonList }

CityRegionFinish == tool = "city-region" /\ NormFinish

\* Lines 183-185.
CityRegionContinue ==
    /\ tool = "city-region" /\ pc = "loop"
    /\ Cur <= Len(data) /\ BelowMax(processed)
    /\ data[Cur].stationuuid \in skipped
    /\ target' = Cur
    /\ UNCHANGED <<tool, pc, data, dataFile, removerVars, probeVars, normVars, args, skipped,
                   progressFile, processed, exit_code, run, obs>>

\* Lines 191-195.
CityRegionMissingCoords ==
    /\ tool = "city-region" /\ pc = "loop"
    /\ Cur <= Len(data) /\ BelowMax(processed)
    /\ data[Cur].stationuuid \notin skipped
    /\ CoordsMissing(data[Cur])
    /\ skipped' = skipped \cup {data[Cur].stationuuid}
    /\ target' = Cur
    /\ UNCHANGED <<tool, pc, data, dataFile, removerVars, probeVars, normVars, args,
                   progressFile, processed, exit_code, run, obs>>

\* Lines 200-205: float() or the request raises.
CityRegionRequestFails ==
    /\ tool = "city-region" /\ pc = "loop"
    /\ Cur <= Len(data) /\ BelowMax(processed)
    /\ data[Cur].stationuuid \notin skipped
    /\ ~CoordsMissing(data[Cur])
    /\ obs' = IF FloatRaises(data[Cur]) THEN obs
              ELSE [obs EXCEPT !.requests = @ + 1, !.slept = FALSE]
    /\ skipped' = skipped \cup {data[Cur].stationuuid}
    /\ target' = Cur
    /\ UNCHANGED <<tool, pc, data, dataFile, removerVars, probeVars, normVars, args,
                   progressFile, processed, exit_code, run>>

\* Lines 207-212: no alias matches the address of the answer.
CityRegionNoMatch ==
    /\ tool = "city-region" /\ pc = "loop"
    /\ Cur <= Len(data) /\ BelowMax(processed)
    /\ data[Cur].stationuuid \notin skipped
    /\ ~CoordsMissing(data[Cur]) /\ ~FloatRaises(data[Cur])
    /\ \E payload \in RegionPayloads :
          /\ map_region(AddressOf(payload)) = None
          /\ obs' = [obs EXCEPT !.requests = @ + 1, !.slept = FALSE,
                                 !.answer[Cur] = payload]
    /\ skipped' = skipped \cup {data[Cur].stationuuid}
    /\ target' = Cur
    /\ UNCHANGED <<tool, pc, data, dataFile, removerVars, probeVars, normVars, args,
                   progressFile, processed, exit_code, run>>

\* Lines 207-208: the answer is no object, or its address is neither an
\* object nor empty: payload.get, or address.get, raises AttributeError
\* outside the try of lines 200-205.  The run ends with a traceback and
\* status 1; the progress file is not written, so what the run added to the
\* skip set is lost.
CityRegionAnswerRaises ==
    /\ tool = "city-region" /\ pc = "loop"
    /\ Cur <= Len(data) /\ BelowMax(processed)
    /\ data[Cur].stationuuid \notin skipped
    /\ ~CoordsMissing(data[Cur]) /\ ~FloatRaises(data[Cur])
    /\ \E payload \in RegionPayloads :
          /\ map_region(AddressOf(payload)) = Raised
          /\ obs' = [obs EXCEPT !.requests = @ + 1, !.slept = FALSE,
                                 !.answer[Cur] = payload]
    /\ target' = Cur
    /\ pc' = "done" /\ exit_code' = 1
    /\ UNCHANGED <<tool, data, dataFile, removerVars, probeVars, normVars, args, skipped,
                   progressFile, processed, run>>

\* Lines 207-229: the city and the state are set, the dataset written.
CityRegionUpdate ==
    /\ tool = "city-region" /\ pc = "loop"
    /\ Cur <= Len(data) /\ BelowMax(processed)
    /\ data[Cur].stationuuid \notin skipped
    /\ ~CoordsMissing(data[Cur]) /\ ~FloatRaises(data[Cur])
    /\ \E payload \in RegionPayloads :
          /\ map_region(AddressOf(payload)) \notin {None, Raised}
          /\ obs' = [obs EXCEPT !.requests = @ + 1, !.slept = FALSE,
                                 !.answer[Cur] = payload]
          /\ data' = [data EXCEPT
                        ![Cur].city = IF city_candidate(data[Cur]) \in {None, <<>>}
                                      THEN @ ELSE city_candidate(data[Cur]),
                        ![Cur].state = map_region(AddressOf(payload))]
    /\ dataFile' = data'
    /\ processed' = processed + 1
    /\ target' = Cur
    /\ pc' = IF args.sleep > 0 /\ BelowMax(processed + 1) THEN "sleep" ELSE "loop"
    /\ UNCHANGED <<tool, removerVars, probeVars, normVars, args, skipped, progressFile,
                   exit_code, run>>

\* Line 229: time.sleep(args.sleep) returns.
CityRegionSleep ==
    /\ tool = "city-region" /\ pc = "sleep"
    /\ pc' = "loop"
    /\ obs' = [obs EXCEPT !.slept = TRUE]
    /\ UNCHANGED <<tool, data, dataFile, removerVars, probeVars, normVars, args, skipped,
                   progressFile, processed, target, exit_code, run>>

\* The interrupt arrives while the request is in flight (line 201).
CityRegionInterruptInRequest ==
    /\ pc = "loop"
    /\ Cur <= Len(data) /\ BelowMax(processed)
    /\ data[Cur].stationuuid \notin skipped
    /\ ~CoordsMissing(data[Cur]) /\ ~FloatRaises(data[Cur])
    /\ obs' = [obs EXCEPT !.requests = @ + 1, !.slept = FALSE]
    /\ Interrupted
    /\ UNCHANGED <<data, dataFile>>

\* The interrupt arrives after the answer: before the assignments, after
\* the assignment of the city (line 222), or after that of the state (line
\* 224) and before, in or after the write of line 225, with processed not
\* yet incremented.
CityRegionInterruptInUpdate ==
    /\ pc = "loop"
    /\ Cur <= Len(data) /\ BelowMax(processed)
    /\ data[Cur].stationuuid \notin skipped
    /\ ~CoordsMissing(data[Cur]) /\ ~FloatRaises(data[Cur])
    /\ \E payload \in RegionPayloads :
          LET withCity == [data EXCEPT
                             ![Cur].city = IF city_candidate(data[Cur]) \in {None, <<>>}
                                           THEN @ ELSE city_candidate(data[Cur])]
              withBoth == [withCity EXCEPT ![Cur].state = map_region(AddressOf(payload))]
          IN  /\ obs' = [obs EXCEPT !.requests = @ + 1, !.slept = FALSE,
                                     !.answer[Cur] = payload]
              /\ \/ UNCHANGED <<data, dataFile>>
                 \/ /\ map_region(AddressOf(payload)) \notin {None, Raised}
                    /\ data' = withCity
                    /\ UNCHANGED dataFile
                 \/ /\ map_region(AddressOf(payload)) \notin {None, Raised}
                    /\ data' = withBoth
                    /\ dataFile' \in InterruptedWrite(dataFile, withBoth)
    /\ Interrupted

\* KeyboardInterrupt, wherever it arrives: in the try block (lines 230-236)
\* or outside it.
CityRegionInterrupt ==
    /\ tool = "city-region"
    /\ \/ pc = "start" /\ LoadInterrupted
       \/ /\ \/ Interrupted /\ UNCHANGED <<data, dataFile, obs>>
             \/ CityRegionInterruptInRequest
             \/ CityRegionInterruptInUpdate
          /\ UNCHANGED <<unknownFile, unknown_cities, skipped, processed, target>>
       \/ NormInterruptAtExit
    /\ UNCHANGED <<tool, removerVars, probeVars, mapFile, args, run>>

-----------------------------------------------------------------------------
(* Inputs of the normalizers                                               *)

NormStation(uuid, state, city, coords) ==
    [stationuuid |-> uuid, state |-> state, city |-> city,
     geo_lat |-> coords[1], geo_long |-> coords[2]]

\* None, " ", "Athens ", "Attica", "West Macedonia" and Ano-Volos in Greek
\* capitals: U+0386 U+039D U+03A9 "-" U+0392 U+038C U+039B U+039F U+03A3
CityOnlyStates ==
    {None, <<32>>, <<65, 116, 104, 101, 110, 115, 32>>, <<902, 925, 937, 45, 914, 908, 923, 927, 931>>, <<65, 116, 116, 105, 99, 97>>, <<87, 101, 115, 116, 32, 77, 97, 99, 101, 100, 111, 110, 105, 97>>}

\* The stations of the static-map variant: every state with the city "",
\* and the state "Athens " with the city "X".
CityOnlyStations(uuid) ==
    {NormStation(uuid, state, <<>>, <<"37.98", "23.72">>) : state \in CityOnlyStates}
    \cup {NormStation(uuid, <<65, 116, 104, 101, 110, 115, 32>>, <<88>>, <<"37.98", "23.72">>)}

MapItem(city, region) == [city |-> city, region |-> region]

\* No file; no JSON; a JSON array; and the objects
\*   {"Athens": " Attica", <ano volos>: "Thessaly", "-": "Crete"}
\*   {"athens": "Atlantis", "west macedonia": "Western Macedonia"}
\*   {"athens": "Attica", "ATHENS ": 5, <ano volos>: " ",
\*    "west macedonia": "Attica", "West Macedonia": "Western Macedonia",
\*    "west macedonia": "Thessaly", "a": "Attica", "a": 5}
\* where <ano volos> is in small Greek letters: U+03AC U+03BD U+03C9 " "
\* U+03B2 U+03CC U+03BB U+03BF U+03C2.  normalize_text("-") is "".
MapFiles ==
    { [kind |-> "missing", items |-> <<>>],
      [kind |-> "invalid", items |-> <<>>],
      [kind |-> "array", items |-> <<>>],
      [kind |-> "object",
       items |-> <<MapItem(<<65, 116, 104, 101, 110, 115>>, <<32, 65, 116, 116, 105, 99, 97>>),
                   MapItem(<<940, 957, 969, 32, 946, 972, 955, 959, 962>>, <<84, 104, 101, 115, 115, 97, 108, 121>>),
                   MapItem(<<45>>, <<67, 114, 101, 116, 101>>)>>],
      [kind |-> "object",
       items |-> <<MapItem(<<97, 116, 104, 101, 110, 115>>, <<65, 116, 108, 97, 110, 116, 105, 115>>),
                   MapItem(<<119, 101, 115, 116, 32, 109, 97, 99, 101, 100, 111, 110, 105, 97>>, <<87, 101, 115, 116, 101, 114, 110, 32, 77, 97, 99, 101, 100, 111, 110, 105, 97>>)>>],
      [kind |-> "object",
       items |-> <<MapItem(<<97, 116, 104, 101, 110, 115>>, <<65, 116, 116, 105, 99, 97>>),
                   MapItem(<<65, 84, 72, 69, 78, 83, 32>>, Number),
                   MapItem(<<940, 957, 969, 32, 946, 972, 955, 959, 962>>, <<32>>),
                   MapItem(<<119, 101, 115, 116, 32, 109, 97, 99, 101, 100, 111, 110, 105, 97>>, <<65, 116, 116, 105, 99, 97>>),
                   MapItem(<<87, 101, 115, 116, 32, 77, 97, 99, 101, 100, 111, 110, 105, 97>>, <<87, 101, 115, 116, 101, 114, 110, 32, 77, 97, 99, 101, 100, 111, 110, 105, 97>>),
                   MapItem(<<119, 101, 115, 116, 32, 109, 97, 99, 101, 100, 111, 110, 105, 97>>, <<84, 104, 101, 115, 115, 97, 108, 121>>),
                   MapItem(<<97>>, <<65, 116, 116, 105, 99, 97>>),
                   MapItem(<<97>>, Number)>>] }

\* None, "Volos city", "Attica"
CityRegionStates == {None, <<86, 111, 108, 111, 115, 32, 99, 105, 116, 121>>, <<65, 116, 116, 105, 99, 97>>}

\* "", "Municipality of Pireas (port), GR"
CityRegionCities == {<<>>, <<77, 117, 110, 105, 99, 105, 112, 97, 108, 105, 116, 121, 32, 111, 102, 32, 80, 105, 114, 101, 97, 115, 32, 40, 112, 111, 114, 116, 41, 44, 32, 71, 82>>}

InitNormalizers ==
    /\ tool \in {"city-only", "city-region"}
    /\ \E n \in 1..2 :
          \/ /\ tool = "city-only"
             /\ args \in [max : 0..MaxCap, sleep : {0}, overwrite : {FALSE}]
             /\ mapFile \in MapFiles
             /\ progressFile \in ProgressFiles({"id1"})
             /\ \E first \in CityOnlyStations("id1"), second \in {"id1", "id2"} :
                   \E other \in CityOnlyStations(second) :
                      dataFile = IF n = 1 THEN <<first>> ELSE <<first, other>>
          \/ /\ tool = "city-region"
             /\ args \in [max : 0..MaxCap, sleep : {0, 1}, overwrite : {FALSE}]
             /\ NoMap
             /\ progressFile \in [kind : {"missing"}, ids : {{}}]
                                 \cup [kind : {"array"}, ids : {{}, {"id1"}}]
             /\ \E st \in [1..n -> CityRegionStates], ci \in [1..n -> CityRegionCities],
                   co \in [1..n -> {<<"37.98", "23.72">>, <<"None", "23.72">>,
                                    <<"abc", "23.72">>}] :
                   dataFile = [i \in 1..n |-> NormStation(StationIds[i], st[i], ci[i], co[i])]
    /\ InitBatch

NextNormalizers ==
    \/ NormStart
    \/ CityOnlyFinish \/ CityOnlyContinue \/ CityOnlyUnknown
    \/ CityOnlyInvalidRegion \/ CityOnlyUpdate \/ CityOnlyInterrupt
    \/ CityRegionFinish \/ CityRegionContinue \/ CityRegionMissingCoords
    \/ CityRegionRequestFails \/ CityRegionNoMatch \/ CityRegionAnswerRaises
    \/ CityRegionUpdate \/ CityRegionSleep \/ CityRegionInterrupt

SpecNormalizers == InitNormalizers /\ [][NextNormalizers]_vars

-----------------------------------------------------------------------------
(* ffprobe-metadata.py                                                     *)

\* The characters str.splitlines() breaks at.
LineBreaks == {10, 11, 12, 13, 28, 29, 30, 133, 8232, 8233}

\* text.splitlines(), from the i-th character on, cur being the line begun.
RECURSIVE SplitLinesFrom(_, _, _)
SplitLinesFrom(text, i, cur) ==
    IF i > Len(text) THEN (IF cur = <<>> THEN <<>> ELSE <<cur>>)
    ELSE IF text[i] = 13 /\ i < Len(text) /\ text[i + 1] = 10
         THEN <<cur>> \o SplitLinesFrom(text, i + 2, <<>>)
         ELSE IF text[i] \in LineBreaks
              THEN <<cur>> \o SplitLinesFrom(text, i + 1, <<>>)
              ELSE SplitLinesFrom(text, i + 1, Append(cur, text[i]))

splitlines(text) == SplitLinesFrom(text, 1, <<>>)

\* [u.strip() for u in list if u.strip()]
RECURSIVE StrippedNonBlank(_)
StrippedNonBlank(list) ==
    IF list = <<>> THEN <<>>
    ELSE (IF Strip(Head(list)) # <<>> THEN <<Strip(Head(list))>> ELSE <<>>)
         \o StrippedNonBlank(Tail(list))

\* Lines 42-49: the list of URLs, when the input file is there or not asked
\* for.
UrlList(a) ==
    StrippedNonBlank(a.url)
    \o (IF a.input.kind = "file" THEN StrippedNonBlank(splitlines(a.input.text))
        ELSE <<>>)

\* What subprocess.run gives when there is no ffprobe to run: it raises
\* FileNotFoundError (line 20).
NoFfprobe == [missing |-> TRUE]

\* run_ffprobe, given what subprocess.run does: it raises, or returns the
\* return code, stderr as code points, and stdout as json.loads takes it
\* (malformed; an object with its fields; a JSON value of another type, on
\* which payload.get raises at line 30).
run_ffprobe(url, result) ==
    IF result = NoFfprobe THEN Raises("FileNotFoundError")
    ELSE IF result.returncode # 0
    THEN [url |-> url,
          error |-> IF Strip(result.stderr) # <<>> THEN Strip(result.stderr)
                    ELSE <<102, 102, 112, 114, 111, 98, 101, 32, 102, 97, 105, 108, 101, 100>>]
    ELSE IF result.stdout.json = "malformed"
         THEN [url |-> url, error |-> <<73, 110, 118, 97, 108, 105, 100, 32, 102, 102, 112, 114, 111, 98, 101, 32, 74, 83, 79, 78, 32, 111, 117, 116, 112, 117, 116>>]
         ELSE IF result.stdout.json # "object"
              THEN Raises("AttributeError")
              ELSE [url |-> url,
                    format |-> IF "format" \in DOMAIN result.stdout.fields
                               THEN result.stdout.fields.format ELSE "{}",
                    streams |-> IF "streams" \in DOMAIN result.stdout.fields
                                THEN result.stdout.fields.streams ELSE "[]"]

NoFields == [json |-> "object", fields |-> [k \in {} |-> ""]]

\* What ffprobe can do: not be there; fail with the message " no such\n" and
\* "{}" on stdout; fail with nothing on stderr and no JSON, or "[]", on
\* stdout; end well with no JSON on stdout, with "{}", with format and
\* streams, with "[]", with "null".
FfprobeResults ==
    { NoFfprobe,
      [returncode |-> 1, stderr |-> <<32, 110, 111, 32, 115, 117, 99, 104, 10>>, stdout |-> NoFields],
      [returncode |-> 1, stderr |-> <<>>, stdout |-> [json |-> "malformed", fields |-> <<>>]],
      [returncode |-> 1, stderr |-> <<>>, stdout |-> [json |-> "array", fields |-> <<>>]],
      [returncode |-> 0, stderr |-> <<>>, stdout |-> [json |-> "malformed", fields |-> <<>>]],
      [returncode |-> 0, stderr |-> <<>>, stdout |-> NoFields],
      [returncode |-> 0, stderr |-> <<119, 97, 114, 110>>,
       stdout |-> [json |-> "object",
                   fields |-> [format |-> "{mp3}", streams |-> "[audio]"]]],
      [returncode |-> 0, stderr |-> <<>>, stdout |-> [json |-> "array", fields |-> <<>>]],
      [returncode |-> 0, stderr |-> <<>>, stdout |-> [json |-> "null", fields |-> <<>>]] }

\* Lines 42-53: the URLs are collected; no input file, or no URL, ends the
\* run with status 1.
ProbeStart ==
    /\ tool = "prober" /\ pc = "start"
    /\ IF args.input.kind = "missing"
       THEN /\ urls' = StrippedNonBlank(args.url)
            /\ pc' = "done" /\ exit_code' = 1
       ELSE /\ urls' = UrlList(args)
            /\ IF UrlList(args) = <<>>
               THEN pc' = "done" /\ exit_code' = 1
               ELSE pc' = "probing" /\ UNCHANGED exit_code
    /\ UNCHANGED <<tool, data, dataFile, removerVars, normVars, args, skipped,
                   progressFile, processed, target, run, obs, results, output>>

\* Line 55: run_ffprobe for the next URL.  An exception it raises is caught
\* nowhere: the run ends with a traceback and status 1, nothing written.
ProbeUrl ==
    /\ tool = "prober" /\ pc = "probing"
    /\ Len(results) < Len(urls)
    /\ \E result \in FfprobeResults :
          LET url == urls[Len(results) + 1]
              record == run_ffprobe(url, result)
          IN  /\ obs' = [obs EXCEPT !.calls = Append(@, [url |-> url, result |-> result])]
              /\ IF "raises" \in DOMAIN record
                 THEN /\ pc' = "done" /\ exit_code' = 1
                      /\ UNCHANGED results
                 ELSE /\ results' = Append(results, record)
                      /\ UNCHANGED <<pc, exit_code>>
    /\ UNCHANGED <<tool, data, dataFile, removerVars, normVars, args, skipped,
                   progressFile, processed, target, run, urls, output>>

\* Lines 57-63: the array goes to the output file or to standard output.
ProbeWrite ==
    /\ tool = "prober" /\ pc = "probing"
    /\ Len(results) = Len(urls)
    /\ output' = [to |-> IF args.output THEN "file" ELSE "stdout", array |-> results]
    /\ pc' = "done" /\ exit_code' = 0
    /\ UNCHANGED <<tool, data, dataFile, removerVars, normVars, args, skipped,
                   progressFile, processed, target, run, obs, urls, results>>

\* What is known of a call of ffprobe that Ctrl-C ended.
CallInterrupted == [interrupted |-> TRUE]

\* What an interrupted write leaves where the array should be.
PartialOutput == [to |-> IF args.output THEN "file" ELSE "stdout", array |-> DamagedFile]

\* Ctrl-C: KeyboardInterrupt is caught nowhere in this script, the run ends
\* with status 130.  It can come before the URLs are collected, between two
\* probes, while ffprobe runs (line 20: the call is made, no record is
\* kept), while the array is written (lines 57-61: it is written in
\* part, or not at all), and after it is written, before the process ends
\* (lines 63 and 67: the whole array is there).
ProbeInterrupt ==
    /\ tool = "prober" /\ pc \in {"start", "probing"}
    /\ \/ UNCHANGED <<obs, output>>
       \/ /\ pc = "probing" /\ Len(results) < Len(urls)
          /\ obs' = [obs EXCEPT !.calls = Append(@, [url |-> urls[Len(results) + 1],
                                                      result |-> CallInterrupted])]
          /\ UNCHANGED output
       \/ /\ pc = "probing" /\ Len(results) = Len(urls)
          /\ output' \in {PartialOutput,
                          [to |-> IF args.output THEN "file" ELSE "stdout",
                           array |-> results]}
          /\ UNCHANGED obs
    /\ pc' = "done" /\ exit_code' = 130
    /\ UNCHANGED <<tool, data, dataFile, removerVars, normVars, args, skipped,
                   progressFile, processed, target, run, urls, results>>

\* Number of --url flags explored.
MaxUrlFlags == 2

\* " ", "u", " v "
UrlFlags == {<<32>>, <<117>>, <<32, 118, 32>>}

\* No --input; an --input that does not exist; the texts "" and
\* "v\r\n\n w ".
InputFiles ==
    { [kind |-> "none", text |-> <<>>],
      [kind |-> "missing", text |-> <<>>],
      [kind |-> "file", text |-> <<>>],
      [kind |-> "file", text |-> <<118, 13, 10, 10, 32, 119, 32>>] }

InitProber ==
    /\ tool = "prober" /\ pc = "start"
    /\ \E n \in 0..MaxUrlFlags : \E flags \in [1..n -> UrlFlags] :
          \E input \in InputFiles, out \in BOOLEAN :
             args = [url |-> flags, input |-> input, output |-> out]
    /\ data = <<>> /\ dataFile = <<>>
    /\ skipped = {} /\ progressFile = <<>> /\ processed = 0 /\ target = 0
    /\ exit_code = -1 /\ run = 1
    /\ obs = [calls |-> <<>>]
    /\ NoMap /\ NoUnknown /\ NoProbe /\ NoRemover

NextProber == ProbeStart \/ ProbeUrl \/ ProbeWrite \/ ProbeInterrupt

SpecProber == InitProber /\ [][NextProber]_vars

-----------------------------------------------------------------------------
(* Claims about the Geo-based State Filler                                 *)

\* The value the claim names: of the fields of the address in the priority
\* order, the first that is a string with something in it besides blanks,
\* trimmed; None when there is no such field.
Usable(address, key) ==
    /\ key \in DOMAIN address
    /\ address[key] \notin {None, Number}
    /\ \E c \in Range(address[key]) : ~IsSpace(c)

\* The priority order as the claim lists it.
ClaimPriority ==
    <<"city", "town", "village", "municipality", "county", "city_district",
      "suburb", "state_district", "state", "region">>

FirstUsable(address) ==
    IF \E j \in 1..Len(ClaimPriority) : Usable(address, ClaimPriority[j])
    THEN LET j == CHOOSE j \in 1..Len(ClaimPriority) :
                    /\ Usable(address, ClaimPriority[j])
                    /\ \A k \in 1..(j - 1) : ~Usable(address, ClaimPriority[k])
         IN  Strip(address[ClaimPriority[j]])
    ELSE None

\* The station had no state, had coordinates and was not skipped when the
\* run started.
WasEligible(i) ==
    /\ ~HasState(obs.dataAtStart[i])
    /\ ~CoordsMissing(obs.dataAtStart[i])
    /\ obs.dataAtStart[i].stationuuid \notin LoadSkipped(obs.progressAtStart)

\* The address of the last answer received for the i-th station.
AnsweredAddress(i) ==
    IF "address" \in DOMAIN obs.answer[i] THEN obs.answer[i].address
    ELSE [k \in {} |-> None]

\* C5 as stated: a station that lacked state, had coordinates and was not
\* skipped, and whose last geocoding answer holds a usable address field,
\* has as state the first such field in the priority order, trimmed, in
\* memory and in the dataset file.
C5_StateIsFirstPriorityField ==
    (tool = "geo" /\ pc \in {"loop", "sleep", "done"}) =>
        \A i \in 1..Len(data) :
            (WasEligible(i) /\ FirstUsable(AnsweredAddress(i)) # None)
                => /\ data[i].state = FirstUsable(AnsweredAddress(i))
                   /\ dataFile[i].state = FirstUsable(AnsweredAddress(i))

\* C5, narrowed: the same in a run that is not interrupted.
C5_StateIsFirstPriorityFieldUnlessInterrupted ==
    (tool = "geo" /\ pc \in {"loop", "sleep", "done"} /\ exit_code # 130) =>
        \A i \in 1..Len(data) :
            (WasEligible(i) /\ FirstUsable(AnsweredAddress(i)) # None)
                => /\ data[i].state = FirstUsable(AnsweredAddress(i))
                   /\ dataFile[i].state = FirstUsable(AnsweredAddress(i))

\* Witness of C5: the run is over; the second station was answered with a
\* blank city and the town "\u00a0Vol " (a no-break space first) and its
\* state is "Vol".
C5_Witness ==
    /\ tool = "geo" /\ pc = "done" /\ exit_code = 0
    /\ Len(data) = 2
    /\ WasEligible(2)
    /\ obs.answer[2] = [address |-> [city |-> <<32>>, town |-> <<160, 86, 111, 108, 32>>]]
    /\ dataFile[2].state = <<86, 111, 108>>

-----------------------------------------------------------------------------
(* Claims about both fillers                                               *)

\* Nothing was requested and both files are as they were when the run
\* started.
NothingDone ==
    /\ obs.requests = 0
    /\ dataFile = obs.dataAtStart
    /\ progressFile = obs.progressAtStart

\* C6 as stated: a run that starts after a run has ended, on files in which
\* every station has a state or is in the skip set, requests nothing and
\* leaves both files as they are.
C6_RerunIsNoOp ==
    (tool \in {"geo", "homepage"} /\ run > 1 /\ obs.settled) => NothingDone

\* C6, narrowed: the same, for a run without --overwrite that is not
\* interrupted.
C6_RerunIsNoOpByDefault ==
    (/\ tool \in {"geo", "homepage"} /\ run > 1 /\ obs.settled
     /\ ~args.overwrite /\ exit_code # 130) => NothingDone

\* Witness of C6: the second run of the homepage filler has ended normally
\* on a settled dataset of two stations, one with a state and one skipped.
C6_Witness ==
    /\ tool = "homepage" /\ run = 2 /\ obs.settled
    /\ pc = "done" /\ exit_code = 0
    /\ Len(dataFile) = 2
    /\ HasState(dataFile[1]) /\ ~HasState(dataFile[2])
    /\ dataFile[2].stationuuid \in LoadSkipped(progressFile)
    /\ NothingDone

-----------------------------------------------------------------------------
(* Claims about the City/Region Normalizers                                *)

\* The 13 canonical region names of the static-map variant.
CanonicalRegions == Range(REGIONS_city_only)

\* The i-th station as the run found it.
Orig(i) == obs.dataAtStart[i]

\* The case of C7: the state is a string that is not empty and no canonical
\* region, the city is empty, and the lookup table maps the normalized state
\* to a canonical region.
C7_Case(i) ==
    /\ Orig(i).state \notin {None, <<>>}
    /\ Orig(i).state \notin CanonicalRegions
    /\ Orig(i).city \in {None, <<>>}
    /\ normalize_text(Orig(i).state) \in DOMAIN city_region_map
    /\ city_region_map[normalize_text(Orig(i).state)] \in CanonicalRegions

\* The i-th station has the trimmed original state as city and the mapped
\* region as state, in memory and on disk.
C7_Moved(i) ==
    /\ data[i].city = Strip(Orig(i).state)
    /\ data[i].state = city_region_map[normalize_text(Orig(i).state)]
    /\ dataFile[i] = data[i]

\* C7: after a run of the static-map variant without --max, every station in
\* the case of C7 has the trimmed original state as city and the mapped
\* region as state, whether or not it was in the skip set, and is in the
\* skip set no more.
C7_CityMovedAndRegionSet ==
    (tool = "city-only" /\ pc = "done" /\ args.max = 0) =>
        \A i \in 1..Len(data) :
            C7_Case(i) =>
                /\ C7_Moved(i)
                /\ data[i].stationuuid \notin skipped
                /\ data[i].stationuuid \notin LoadSkipped(progressFile)

\* The state of the i-th station has something in it besides blanks.
StateNotBlank(i) == \E ch \in Range(Orig(i).state) : ~IsSpace(ch)

\* No other station has the stationuuid of the i-th.
OnlyOneWithId(i) ==
    \A j \in 1..Len(data) : j # i => data[j].stationuuid # data[i].stationuuid

\* C7, narrowed: after a run without --max whose loop has passed the last
\* station (no interrupt stopped it before), every station in the case of C7
\* whose state is not blank has the trimmed original state as city and the
\* mapped region as state; when no other station has its stationuuid, it is
\* in the skip set no more, nor, when the run ended with status 0, in the
\* progress file.
C7_CityMovedUnlessBlankOrInterrupted ==
    (tool = "city-only" /\ pc = "done" /\ target = Len(data) /\ args.max = 0) =>
        \A i \in 1..Len(data) :
            (C7_Case(i) /\ StateNotBlank(i)) =>
                /\ C7_Moved(i)
                /\ OnlyOneWithId(i) =>
                      /\ data[i].stationuuid \notin skipped
                      /\ exit_code = 0 =>
                            data[i].stationuuid \notin LoadSkipped(progressFile)

\* Witness of C7: the first station had the state "Athens ", was in the skip
\* set, and ends as city "Athens", state "Attica", out of the skip file; the
\* second station has another stationuuid.
C7_Witness ==
    /\ tool = "city-only" /\ pc = "done" /\ exit_code = 0 /\ args.max = 0
    /\ Len(data) = 2 /\ OnlyOneWithId(1)
    /\ C7_Case(1)
    /\ Orig(1).state = <<65, 116, 104, 101, 110, 115, 32>>
    /\ "id1" \in LoadSkipped(obs.progressAtStart)
    /\ dataFile[1].city = <<65, 116, 104, 101, 110, 115>>
    /\ dataFile[1].state = <<65, 116, 116, 105, 99, 97>>
    /\ "id1" \notin LoadSkipped(progressFile)

\* The run changed the i-th station.
Updated(i) == data[i] # Orig(i)

\* C8: the state of every station a normalizer has updated is one of the 13
\* region names of that variant and one of the 13 of the other variant, which
\* therefore takes it for a region.
C8_UpdatedStateIsRegionForBoth ==
    (tool \in {"city-only", "city-region"} /\ pc \in {"loop", "sleep", "done"}) =>
        \A i \in 1..Len(data) :
            Updated(i) =>
                /\ StateIsRegion_city_only(data[i])
                /\ StateIsRegion_city_region(data[i])

\* The progress file is an array of identifiers; the map file is an object.
WellFormedProgress(file) == file.kind = "array"
WellFormedMap(file) == file.kind = "object"

\* C9: a run that found a missing or malformed progress file starts from an
\* empty skip set and does not fail, and a run that found a missing or
\* malformed map file has an empty lookup table.
C9_MalformedFilesBehaveAsEmpty ==
    (tool \in {"city-only", "city-region"} /\ pc \in {"loop", "sleep", "done"}) =>
        /\ ~WellFormedProgress(obs.progressAtStart) =>
              /\ LoadSkipped(obs.progressAtStart) = {}
              /\ exit_code # 1
        /\ ~WellFormedMap(mapFile) => DOMAIN city_region_map = {}

-----------------------------------------------------------------------------
(* Claims about the Stream Prober                                          *)

\* The input URLs as the claim lists them: the --url values, then the lines
\* of --input, blank ones dropped, each without the blanks around it.
NonBlank(s) == \E ch \in Range(s) : ~IsSpace(ch)
InputUrls ==
    LET given == SelectSeq(args.url, NonBlank)
        lines == IF args.input.kind = "file"
                 THEN SelectSeq(splitlines(args.input.text), NonBlank)
                 ELSE <<>>
        all == given \o lines
    IN  [i \in 1..Len(all) |-> Strip(all[i])]

\* The probe of the i-th call failed as the claim has it: non-zero exit, or
\* malformed JSON printed.
ProbeFailed(i) ==
    /\ "returncode" \in DOMAIN obs.calls[i].result
    /\ \/ obs.calls[i].result.returncode # 0
       \/ obs.calls[i].result.stdout.json = "malformed"

\* The array written has one record per input URL, in order; ffprobe was run
\* once for each, in order; a record has the fields url and error when its
\* probe failed and url, format and streams when it did not.
OneRecordPerUrl ==
    /\ output # <<>>
    /\ output.array # DamagedFile
    /\ Len(output.array) = Len(InputUrls)
    /\ Len(obs.calls) = Len(InputUrls)
    /\ \A i \in 1..Len(InputUrls) :
          /\ output.array[i].url = InputUrls[i]
          /\ obs.calls[i].url = InputUrls[i]
          /\ DOMAIN output.array[i] = IF ProbeFailed(i) THEN {"url", "error"}
                                      ELSE {"url", "format", "streams"}

\* C10: when a run of the prober has ended that had a non-empty list of
\* input URLs (its --input file, when given, was there) and that the user
\* did not interrupt, the output array has one record per input URL, in
\* order; ffprobe was run once for each; a record is {url, error} when the
\* probe exited non-zero or printed malformed JSON and
\* {url, format, streams} otherwise.
C10_OneRecordPerUrl ==
    (/\ tool = "prober" /\ pc = "done"
     /\ args.input.kind # "missing"
     /\ exit_code # 130
     /\ InputUrls # <<>>) => OneRecordPerUrl

\* The run C10 fails on: the first URL is probed and recorded; for the
\* second ffprobe exits with status 0 and prints JSON that is no object; the
\* run ends with status 1 and nothing is written.
C10_Witness ==
    /\ tool = "prober" /\ pc = "done" /\ exit_code = 1
    /\ Len(InputUrls) = 3
    /\ Len(obs.calls) = 2 /\ Len(results) = 1
    /\ obs.calls[2].result # NoFfprobe
    /\ obs.calls[2].result.returncode = 0
    /\ obs.calls[2].result.stdout.json = "array"
    /\ output = <<>>

\* What does hold: a run of the prober that ends with status 0 has written
\* one record per input URL as above.
RecordsWhenExitZero ==
    (tool = "prober" /\ pc = "done" /\ exit_code = 0) =>
        InputUrls # <<>> /\ OneRecordPerUrl

-----------------------------------------------------------------------------
(* Claims about the selection loop of the Geo-based State Filler           *)

\* This step sends a request to the geocoding service.
GeoRequestStep ==
    tool = "geo" /\ pc = "target" /\ obs'.requests = obs.requests + 1

\* C11: within one run no station is geocoded more than once: a request is
\* sent only for a station the service has not answered for in this run.
C11_NoStationGeocodedTwice ==
    [][GeoRequestStep => obs.answer[target] = NoAnswer]_vars

-----------------------------------------------------------------------------
(* Claims about the delay between requests                                 *)

\* This step of a geocoding utility sends a request to the service.
GeocodingRequestStep ==
    /\ tool \in {"geo", "city-region"} /\ pc \in {"loop", "target"}
    /\ obs'.requests = obs.requests + 1

\* C12: with a positive --sleep, a request is sent only when the delay has
\* elapsed since the request before it, however that one ended.
C12_DelayBetweenRequests ==
    [][(GeocodingRequestStep /\ args.sleep > 0) => obs.slept]_vars

-----------------------------------------------------------------------------
(* Claims about the writes of the progress file                            *)

\* The loop is about to handle a station, or is handling one.
StationAhead ==
    IF tool \in {"city-only", "city-region"}
    THEN pc \in {"loop", "sleep"} /\ Cur <= Len(data) /\ BelowMax(processed)
    ELSE pc \in {"loop", "target", "sleep"}

\* C13: in both fillers and both normalizers, whenever the loop is about to
\* handle a station, every station of the skip set in memory is in the skip
\* file on disk; and when a run has ended with status 130, every station of
\* its skip set is in the file.
C13_SkipFileFollowsSkipSet ==
    (tool \in {"geo", "homepage", "city-only", "city-region"}) =>
        /\ StationAhead => skipped \subseteq LoadSkipped(progressFile)
        /\ (pc = "done" /\ exit_code = 130) =>
              skipped \subseteq LoadSkipped(progressFile)

-----------------------------------------------------------------------------
(* Claims about --max in the fillers                                       *)

\* The stations this run added to the skip set.
SkippedInRun == skipped \ LoadSkipped(obs.progressAtStart)

\* The candidates this run has selected and handled to the end: those it
\* skipped and those it updated.
CandidatesHandled == Cardinality(SkippedInRun) + processed

\* C14: with --max N, N > 0, a run of a filler handles at most N candidates,
\* skipped or updated, sends at most N requests and updates at most N
\* records.
C14_MaxBoundsCandidates ==
    (tool \in {"geo", "homepage"} /\ pc # "start" /\ args.max > 0) =>
        /\ CandidatesHandled <= args.max
        /\ obs.requests <= args.max
        /\ processed <= args.max

\* The part of C14 that the loop condition gives: at most N records are
\* updated.
MaxBoundsUpdates ==
    (tool \in {"geo", "homepage"} /\ pc # "start" /\ args.max > 0) =>
        processed <= args.max

-----------------------------------------------------------------------------
(* Claims about the failures of the fillers                                *)

\* A step of a filler that ends the handling of the target otherwise than
\* by an update, the user not interrupting it: the target has no homepage
\* or no coordinates, the request raised, or the answer gave no state.
FillerFailureStep ==
    /\ tool \in {"geo", "homepage"} /\ pc = "target"
    /\ pc' # "target"
    /\ processed' = processed
    /\ exit_code' # 130

\* C15: a failed handling of a candidate adds the station's id to the skip
\* set and leaves the dataset as it was, in memory and on disk.
C15_FailureLeavesDatasetUnchanged ==
    [][FillerFailureStep =>
          /\ skipped' = skipped \cup {data[target].stationuuid}
          /\ data' = data
          /\ dataFile' = dataFile]_vars

\* The run C15 fails on: the geocoding service answered the request for the
\* target with JSON that holds no address object (a list, or an object whose
\* address is a list); the run has ended with status 1, the target is not in
\* the skip set, and the progress file is the one the run started with.
C15_Witness ==
    /\ tool = "geo" /\ pc = "done" /\ exit_code = 1 /\ target > 0
    /\ obs.answer[target] \in {JsonList, [address |-> JsonList]}
    /\ data[target].stationuuid \notin skipped
    /\ progressFile = obs.progressAtStart
    /\ data = obs.dataAtStart /\ dataFile = obs.dataAtStart

\* What does hold of such a step: the dataset is left as it was, in memory
\* and on disk.
FailureLeavesDatasetUnchanged ==
    [][FillerFailureStep => data' = data /\ dataFile' = dataFile]_vars

=============================================================================
